---- MODULE Spec2Model ----
(***************************************************************************)
(* Model of docs/parser.js (OCR text -> project record) and of the part of *)
(* docs/app.js that holds the text and the parsed record.                   *)
(*                                                                          *)
(* A JavaScript string is a sequence of cells [c |-> <one character>,       *)
(* n |-> <repeat count>].  Every character the parser's patterns can look   *)
(* at is a cell with n = 1; a cell with c = Filler stands for n copies of a *)
(* character no pattern of parser.js mentions (not a letter, digit, space   *)
(* or punctuation sign used by the patterns), so that the character offsets *)
(* the code computes with (320, 500, 600, ...) are exact.                   *)
(***************************************************************************)
EXTENDS Integers, Sequences, FiniteSets, TLC

\* arg: the string given to the function called last; ret: what it returned;
\* lastIndex: the lastIndex of each module-level pattern with the g flag;
\* indexAtCall: lastIndex when the last run started;
\* pc: where the page (or the caller of a function) stands; "done" when the
\* call has returned
VARIABLES arg, ret, lastIndex, indexAtCall, pc

vars == <<arg, ret, lastIndex, indexAtCall, pc>>

\* a value that may be null: null, or Some(v)
null == [null |-> TRUE]
Some(v) == [v |-> v]

\* const x = v; ... x ... : F is the rest of the code, which reads x
With(v, F(_)) == F(v)

Max2(a, b) == IF a >= b THEN a ELSE b
Min2(a, b) == IF a <= b THEN a ELSE b

(***************************************************************************)
(* Strings                                                                 *)
(***************************************************************************)
Filler == "~"

\* Characters outside ASCII are written with two ASCII signs:
\* "e/" e acute, "E/" E acute, "a^" a circumflex, "A^" A circumflex,
\* "^2" superscript two, "'^" the typographic apostrophe.
lowerLetters == <<"a","b","c","d","e","f","g","h","i","j","k","l","m","n","o","p","q","r","s","t","u","v","w","x","y","z","e/","a^">>
upperLetters == <<"A","B","C","D","E","F","G","H","I","J","K","L","M","N","O","P","Q","R","S","T","U","V","W","X","Y","Z","E/","A^">>

Digits == {"0", "1", "2", "3", "4", "5", "6", "7", "8", "9"}
AsciiLower == {lowerLetters[k] : k \in 1..26}
AsciiUpper == {upperLetters[k] : k \in 1..26}
WordChars == AsciiLower \cup AsciiUpper \cup Digits \cup {"_"}
Spaces == {" ", "\n", "\r", "\t"}

toUpperChar(c) == IF \E k \in 1..Len(lowerLetters) : lowerLetters[k] = c
                  THEN upperLetters[CHOOSE k \in 1..Len(lowerLetters) : lowerLetters[k] = c]
                  ELSE c
toLowerChar(c) == IF \E k \in 1..Len(upperLetters) : upperLetters[k] = c
                  THEN lowerLetters[CHOOSE k \in 1..Len(upperLetters) : upperLetters[k] = c]
                  ELSE c

\* the function f with domain 1..n, as a tuple
Seq1(f, n) == SubSeq(f, 1, n)

\* A string literal: one cell per character; a cell also records the
\* character offset o at which it starts in its string.
Str(w) == Seq1([k \in 1..Len(w) |-> [c |-> w[k], n |-> 1, o |-> k - 1]], Len(w))
\* n characters of filler.
Pad(n) == IF n = 0 THEN <<>> ELSE <<[c |-> Filler, n |-> n, o |-> 0]>>

\* s.length
length(t) == IF t = <<>> THEN 0 ELSE t[Len(t)].o + t[Len(t)].n
\* the character offset at which cell k starts (k = Len(t)+1: the end)
Off(t, k) == IF k > Len(t) THEN length(t) ELSE t[k].o

\* a + b
concat(a, b) ==
  LET la == length(a)
  IN a \o Seq1([k \in 1..Len(b) |-> [c |-> b[k].c, n |-> b[k].n, o |-> b[k].o + la]], Len(b))

\* the cells k..l of t as a string of their own
cells(t, k, l) ==
  IF l < k THEN <<>>
  ELSE LET base == t[k].o
       IN Seq1([j \in 1..(l - k + 1) |->
                  [c |-> t[k + j - 1].c, n |-> t[k + j - 1].n, o |-> t[k + j - 1].o - base]], l - k + 1)

\* s.slice(a, b) for 0 <= a
slice(t, a, b) ==
  LET K == {k \in 1..Len(t) : t[k].o < b /\ t[k].o + t[k].n > a}
  IN IF K = {} THEN <<>>
     ELSE LET k0 == CHOOSE k \in K : k - 1 \notin K
              k1 == CHOOSE k \in K : k + 1 \notin K
              lo(k) == Max2(t[k].o, a)
              hi(k) == Min2(t[k].o + t[k].n, b)
              base == lo(k0)
          IN Seq1([j \in 1..(k1 - k0 + 1) |->
                     [c |-> t[k0 + j - 1].c, n |-> hi(k0 + j - 1) - lo(k0 + j - 1),
                      o |-> lo(k0 + j - 1) - base]], k1 - k0 + 1)

\* the cell position of character offset o (the first cell starting at or after o)
CellAt(t, o) ==
  LET K == {k \in 1..Len(t) : t[k].o >= o}
  IN IF K = {} THEN Len(t) + 1 ELSE CHOOSE k \in K : k - 1 \notin K

toUpperCase(t) == Seq1([k \in 1..Len(t) |-> [t[k] EXCEPT !.c = toUpperChar(t[k].c)]], Len(t))
toLowerCase(t) == Seq1([k \in 1..Len(t) |-> [t[k] EXCEPT !.c = toLowerChar(t[k].c)]], Len(t))

\* s.includes(w), s.startsWith(w): w is a literal without filler
startsAt(t, k, w) == k + Len(w) - 1 <= Len(t) /\ \A j \in 1..Len(w) : t[k + j - 1].c = w[j]
includes(t, w) == \E k \in 1..(Len(t) - Len(w) + 1) : startsAt(t, k, w)
startsWith(t, w) == startsAt(t, 1, w)

\* s.trim()
trim(t) ==
  LET K == {k \in 1..Len(t) : t[k].c \notin Spaces}
  IN IF K = {} THEN <<>>
     ELSE cells(t, CHOOSE k \in K : \A j \in K : k <= j, CHOOSE k \in K : \A j \in K : k >= j)

digitValue(c) == CHOOSE v \in 0..9 : <<"0","1","2","3","4","5","6","7","8","9">>[v + 1] = c
\* parseInt(s, 10) for a string of digits
RECURSIVE parseInt(_)
parseInt(t) == IF t = <<>> THEN 0 ELSE 10 * parseInt(SubSeq(t, 1, Len(t) - 1)) + digitValue(t[Len(t)].c)

(***************************************************************************)
(* Regular expressions: the patterns of parser.js as syntax trees, and the  *)
(* backtracking matcher of ECMAScript (greedy quantifiers, ordered          *)
(* alternatives).  M returns the ways a pattern matches at a position, best *)
(* first; a pattern's match is the first of them.                           *)
(***************************************************************************)
caseClosure(S) == S \cup {toUpperChar(c) : c \in S} \cup {toLowerChar(c) : c \in S}

Cls(S) == [k |-> "cls", s |-> S]
ClsI(S) == [k |-> "cls", s |-> caseClosure(S)]
Lit(w) == [k |-> "lit", w |-> Seq1([j \in 1..Len(w) |-> {w[j]}], Len(w))]
LitI(w) == [k |-> "lit", w |-> Seq1([j \in 1..Len(w) |-> caseClosure({w[j]})], Len(w))]
Cat(a) == [k |-> "cat", a |-> a]
Alt(a) == [k |-> "alt", a |-> a]
Rep(r, lo, hi) == [k |-> "rep", r |-> r, lo |-> lo, hi |-> hi]
Opt(r) == Rep(r, 0, 1)
\* hi = -1: no upper limit
Star(r) == Rep(r, 0, -1)
Plus(r) == Rep(r, 1, -1)
Grp(n, r) == [k |-> "grp", n |-> n, r |-> r]
WB == [k |-> "wb"]
BOL == [k |-> "bol"]
EOL == [k |-> "eol"]
Digit == Cls(Digits)
Space == Cls(Spaces)

noGroups == <<<<0, 0>>, <<0, 0>>>>

isWordAt(t, i) == i >= 1 /\ i <= Len(t) /\ t[i].c \in WordChars

RECURSIVE M(_, _, _, _)
RECURSIVE CatM(_, _, _, _, _)
RECURSIVE ThenM(_, _, _, _, _)
RECURSIVE AltM(_, _, _, _, _)
RECURSIVE RepM(_, _, _, _, _)
RECURSIVE AgainM(_, _, _, _, _)

M(r, t, i, g) ==
  CASE r.k = "lit" ->
         LET n == Len(r.w)
         IN IF i + n - 1 <= Len(t) /\ \A j \in 1..n : t[i + j - 1].c \in r.w[j]
            THEN <<[e |-> i + n, g |-> g]>> ELSE <<>>
    [] r.k = "cls" ->
         IF i <= Len(t) /\ t[i].c \in r.s THEN <<[e |-> i + 1, g |-> g]>> ELSE <<>>
    [] r.k = "wb" ->
         IF isWordAt(t, i - 1) # isWordAt(t, i) THEN <<[e |-> i, g |-> g]>> ELSE <<>>
    [] r.k = "bol" -> IF i = 1 THEN <<[e |-> i, g |-> g]>> ELSE <<>>
    [] r.k = "eol" -> IF i = Len(t) + 1 THEN <<[e |-> i, g |-> g]>> ELSE <<>>
    [] r.k = "cat" -> CatM(r.a, 1, t, i, g)
    [] r.k = "alt" -> AltM(r.a, 1, t, i, g)
    [] r.k = "rep" -> RepM(r, 0, t, i, g)
    [] r.k = "grp" ->
         LET cs == M(r.r, t, i, g)
         IN Seq1([j \in 1..Len(cs) |-> [e |-> cs[j].e, g |-> [cs[j].g EXCEPT ![r.n] = <<i, cs[j].e>>]]], Len(cs))

CatM(a, k, t, i, g) ==
  IF k > Len(a) THEN <<[e |-> i, g |-> g]>>
  ELSE ThenM(M(a[k], t, i, g), 1, a, k, t)

ThenM(cs, j, a, k, t) ==
  IF j > Len(cs) THEN <<>>
  ELSE CatM(a, k + 1, t, cs[j].e, cs[j].g) \o ThenM(cs, j + 1, a, k, t)

AltM(a, k, t, i, g) ==
  IF k > Len(a) THEN <<>> ELSE M(a[k], t, i, g) \o AltM(a, k + 1, t, i, g)

RepM(r, cnt, t, i, g) ==
  (IF r.hi < 0 \/ cnt < r.hi THEN AgainM(M(r.r, t, i, g), 1, r, cnt, t) ELSE <<>>)
  \o (IF cnt >= r.lo THEN <<[e |-> i, g |-> g]>> ELSE <<>>)

AgainM(cs, j, r, cnt, t) ==
  IF j > Len(cs) THEN <<>>
  ELSE RepM(r, cnt + 1, t, cs[j].e, cs[j].g) \o AgainM(cs, j + 1, r, cnt, t)

\* the characters a match of r can start with, and whether r can match the
\* empty string (a table the matcher uses to skip positions; it changes no result)
RECURSIVE Nullable(_)
RECURSIVE First(_)
RECURSIVE FirstOfCat(_, _)
Nullable(r) ==
  CASE r.k \in {"wb", "bol", "eol"} -> TRUE
    [] r.k \in {"lit", "cls"} -> FALSE
    [] r.k = "cat" -> \A j \in 1..Len(r.a) : Nullable(r.a[j])
    [] r.k = "alt" -> \E j \in 1..Len(r.a) : Nullable(r.a[j])
    [] r.k = "rep" -> r.lo = 0 \/ Nullable(r.r)
    [] r.k = "grp" -> Nullable(r.r)
First(r) ==
  CASE r.k \in {"wb", "bol", "eol"} -> {}
    [] r.k = "lit" -> r.w[1]
    [] r.k = "cls" -> r.s
    [] r.k = "cat" -> FirstOfCat(r.a, 1)
    [] r.k = "alt" -> UNION {First(r.a[j]) : j \in 1..Len(r.a)}
    [] r.k = "rep" -> First(r.r)
    [] r.k = "grp" -> First(r.r)
FirstOfCat(a, k) ==
  IF k > Len(a) THEN {}
  ELSE First(a[k]) \cup (IF Nullable(a[k]) THEN FirstOfCat(a, k + 1) ELSE {})

\* new RegExp(...): the pattern with its table of first characters
RegExp(r) == [re |-> r, first |-> First(r)]

noMatch == [found |-> FALSE]

\* the cell positions from p on at which the pattern matches
Hits(R, t, p) == {q \in p..Len(t) : t[q].c \in R.first /\ M(R.re, t, q, noGroups) # <<>>}

\* the match at cell position q, as
\* [index, end: character offsets; m0: the matched text; g1, g2: the groups,
\* null when the group took no part in the match]
groupOf(t, g) == IF g = <<0, 0>> THEN null ELSE Some(cells(t, g[1], g[2] - 1))
MatchAt(R, t, q) ==
  With(M(R.re, t, q, noGroups)[1], LAMBDA c1 :
    [found |-> TRUE, index |-> Off(t, q), end |-> Off(t, c1.e), m0 |-> cells(t, q, c1.e - 1),
     g1 |-> groupOf(t, c1.g[1]), g2 |-> groupOf(t, c1.g[2])])

Least(H) == CHOOSE q \in H : \A h \in H : q <= h

\* RegExpBuiltinExec: the leftmost match from character offset li on
exec(R, t, li) ==
  IF li > length(t) THEN noMatch
  ELSE With(Hits(R, t, CellAt(t, li)), LAMBDA H :
         IF H = {} THEN noMatch ELSE MatchAt(R, t, Least(H)))

\* s.match(regex) without the g flag, regex.test(s)
match(t, R) == exec(R, t, 0)
test(R, t) == match(t, R).found

\* s.matchAll(regex): the matcher is a copy of regex that starts at
\* regex.lastIndex and the copy's lastIndex moves to the end of each match
RECURSIVE MatchesFrom(_, _, _, _)
MatchesFrom(R, t, H, p) ==
  LET G == {h \in H : h >= p}
  IN IF G = {} THEN <<>>
     ELSE With(MatchAt(R, t, Least(G)), LAMBDA m :
            <<m>> \o MatchesFrom(R, t, H, CellAt(t, m.end)))
matchAll(t, R, li) ==
  IF li > length(t) THEN <<>>
  ELSE LET p == CellAt(t, li) IN MatchesFrom(R, t, Hits(R, t, p), p)

\* s.replace(regex /g, w): every match replaced by the literal w
RECURSIVE ReplaceFrom(_, _, _, _, _)
ReplaceFrom(t, ms, k, from, w) ==
  IF k > Len(ms) THEN slice(t, from, length(t))
  ELSE concat(concat(slice(t, from, ms[k].index), w), ReplaceFrom(t, ms, k + 1, ms[k].end, w))
replace(t, R, w) == ReplaceFrom(t, matchAll(t, R, 0), 1, 0, w)

\* s.split(regex)
RECURSIVE SplitFrom(_, _, _, _)
SplitFrom(t, ms, k, from) ==
  IF k > Len(ms) THEN <<slice(t, from, length(t))>>
  ELSE <<slice(t, from, ms[k].index)>> \o SplitFrom(t, ms, k + 1, ms[k].end)
split(t, R) == SplitFrom(t, matchAll(t, R, 0), 1, 0)

\* the characters of a string without filler, for includes()
chars(t) == Seq1([k \in 1..Len(t) |-> t[k].c], Len(t))

(***************************************************************************)
(* parser.js: tables and patterns                                          *)
(***************************************************************************)
POSTE_TYPES == <<"H61", "PRCS", "RC", "PAC", "PUIE", "CH", "CB">>
POSTE_PUISSANCES == {50, 100, 160, 250, 400, 630, 1000}

codeChars(code) ==
  CASE code = "H61" -> <<"H","6","1">> [] code = "PRCS" -> <<"P","R","C","S">> [] code = "RC" -> <<"R","C">>
    [] code = "PAC" -> <<"P","A","C">> [] code = "PUIE" -> <<"P","U","I","E">> [] code = "CH" -> <<"C","H">>
    [] code = "CB" -> <<"C","B">>

Ss == Star(Space)
Sp == Plus(Space)
eE == ClsI({"e", "e/"})

\* /\bRAC-[A-Z]{3}-\d{2}-\d{6}\b/g and the same without g
racPattern ==
  Cat(<<WB, Lit(<<"R","A","C","-">>), Rep(Cls(AsciiUpper), 3, 3), Lit(<<"-">>), Rep(Digit, 2, 2),
        Lit(<<"-">>), Rep(Digit, 6, 6), WB>>)
RAC_RE == RegExp(racPattern)
RAC_ONE_RE == RegExp(racPattern)

\* /\bP\s*=\s*(\d{1,4})\s*KVA\b/i
P_KVA_RE ==
  RegExp(Cat(<<WB, LitI(<<"P">>), Ss, Lit(<<"=">>), Ss, Grp(1, Rep(Digit, 1, 4)), Ss, LitI(<<"K","V","A">>), WB>>))

\* (?:\s*mm[\xb22\?]?)?
mmUnit == Opt(Cat(<<Ss, LitI(<<"m","m">>), Opt(Cls({"^2", "2", "?"}))>>))
\* /(?<section>3x\s*\d+(?:\s*mm[\xb22\?]?)?(?:\s*\+\s*1x\s*\d+(?:\s*mm[\xb22\?]?)?)?\s*A[IL])/ig
SECTION_RE ==
  RegExp(Grp(1, Cat(<<LitI(<<"3","x">>), Ss, Plus(Digit), mmUnit,
                     Opt(Cat(<<Ss, Lit(<<"+">>), Ss, LitI(<<"1","x">>), Ss, Plus(Digit), mmUnit>>)),
                     Ss, LitI(<<"A">>), ClsI({"I", "L"})>>)))

\* /(\d{1,4})\s*m\b|(\d{1,4})m\b/i
LENGTH_RE ==
  RegExp(Alt(<<Cat(<<Grp(1, Rep(Digit, 1, 4)), Ss, LitI(<<"m">>), WB>>),
               Cat(<<Grp(2, Rep(Digit, 1, 4)), LitI(<<"m">>), WB>>)>>))

\* (?:via|par|avec)?\s*(?:(?<n>\d+)\s+)?
countPrefix ==
  <<Opt(Alt(<<LitI(<<"v","i","a">>), LitI(<<"p","a","r">>), LitI(<<"a","v","e","c">>)>>)), Ss, Opt(Cat(<<Grp(1, Plus(Digit)), Sp>>))>>
\* /(?:via|par|avec)?\s*(?:(?<n>\d+)\s+)?jonction(?:s)?\b/ig
JONCTION_RE == RegExp(Cat(countPrefix \o <<LitI(<<"j","o","n","c","t","i","o","n">>), Opt(LitI(<<"s">>)), WB>>))
\* /(?:via|par|avec)?\s*(?:(?<n>\d+)\s+)?remont[\xe9e]e(?:s)?\s+a[\xe9e]ro[-\s]?souterraine(?:s)?\b/ig
REMONTEE_RE ==
  RegExp(Cat(countPrefix \o
             <<LitI(<<"r","e","m","o","n","t">>), eE, LitI(<<"e">>), Opt(LitI(<<"s">>)), Sp, LitI(<<"a">>), eE, LitI(<<"r","o">>),
               Opt(Cls({"-"} \cup Spaces)), LitI(<<"s","o","u","t","e","r","r","a","i","n","e">>), Opt(LitI(<<"s">>)), WB>>))
\* /\bRAS\b/i
RAS_RE == RegExp(Cat(<<WB, LitI(<<"R","A","S">>), WB>>))

\* (50|100|160|250|400|630|1000)
palierAlt ==
  Grp(1, Alt(<<Lit(<<"5","0">>), Lit(<<"1","0","0">>), Lit(<<"1","6","0">>), Lit(<<"2","5","0">>), Lit(<<"4","0","0">>), Lit(<<"6","3","0">>), Lit(<<"1","0","0","0">>)>>))
\* /\b(50|100|160|250|400|630|1000)\b/g
PALIER_RE == RegExp(Cat(<<WB, palierAlt, WB>>))

\* /\bSURPLUS\b/i
SURPLUS_RE == RegExp(Cat(<<WB, LitI(<<"S","U","R","P","L","U","S">>), WB>>))
\* /\b\d{14}\b/
PRM14_RE == RegExp(Cat(<<WB, Rep(Digit, 14, 14), WB>>))
\* /(?:P\s*conso|Pconso)\s*(?:=|:)?\s*(\d{1,4})\s*KVA\b/i
PCONSO_VAL_RE ==
  RegExp(Cat(<<Alt(<<Cat(<<LitI(<<"P">>), Ss, LitI(<<"c","o","n","s","o">>)>>), LitI(<<"P","c","o","n","s","o">>)>>), Ss,
               Opt(Alt(<<Lit(<<"=">>)>> \o <<Lit(<<":">>)>>)), Ss, Grp(1, Rep(Digit, 1, 4)), Ss, LitI(<<"K","V","A">>), WB>>))

\* /\b(\d{5})P(\d{4})\b/
POSTE_RE == RegExp(Cat(<<WB, Grp(1, Rep(Digit, 5, 5)), Lit(<<"P">>), Grp(2, Rep(Digit, 4, 4)), WB>>))
\* /^(\d{5})P\d{4}$/
INSEE_RE == RegExp(Cat(<<BOL, Grp(1, Rep(Digit, 5, 5)), Lit(<<"P">>), Rep(Digit, 4, 4), EOL>>))

\* /c[\xe2a]ble/i
CABLE_RE == RegExp(Cat(<<LitI(<<"c">>), ClsI({"a^", "a"}), LitI(<<"b","l","e">>)>>))
\* /\+1x/i
PLUS_1X_RE == RegExp(Cat(<<Lit(<<"+">>), LitI(<<"1","x">>)>>))

\* Extension\s+du\s+r[\xe9e]seau\s+HTA
extensionHta == <<LitI(<<"E","x","t","e","n","s","i","o","n">>), Sp, LitI(<<"d","u">>), Sp, LitI(<<"r">>), eE, LitI(<<"s","e","a","u">>), Sp, LitI(<<"H","T","A">>)>>
\* Reprise\s+du\s+r[\xe9e]seau\s+BT\s+existant
repriseBt ==
  <<LitI(<<"R","e","p","r","i","s","e">>), Sp, LitI(<<"d","u">>), Sp, LitI(<<"r">>), eE, LitI(<<"s","e","a","u">>), Sp, LitI(<<"B","T">>), Sp, LitI(<<"e","x","i","s","t","a","n","t">>)>>
\* D<e>placement\s+du\s+poste\s+DP\b
deplacementDp(e) ==
  Cat(<<LitI(<<"D">>), e, LitI(<<"p","l","a","c","e","m","e","n","t">>), Sp, LitI(<<"d","u">>), Sp, LitI(<<"p","o","s","t","e">>), Sp, LitI(<<"D","P">>), WB>>)

\* /Extension\s+du\s+r[\xe9e]seau\s+HTA/ig
HTA_START_RE == RegExp(Cat(extensionHta))
\* /(?:\bdu\s+)?poste[-\s]+source\b/ig
HTA_END_RE ==
  RegExp(Cat(<<Opt(Cat(<<WB, LitI(<<"d","u">>), Sp>>)), LitI(<<"p","o","s","t","e">>), Plus(Cls({"-"} \cup Spaces)),
               LitI(<<"s","o","u","r","c","e">>), WB>>))
\* /\bHTA\b/ig
HTA_WORD_RE == RegExp(Cat(<<WB, LitI(<<"H","T","A">>), WB>>))

\* /Reprise\s+du\s+r[\xe9e]seau\s+BT\s+existant/ig
BT_REPRISE_START_RE == RegExp(Cat(repriseBt))
\* /\b(?:Raccordement\s+en\b|D\xe9placement\s+du\s+poste\s+DP\b|Deplacement\s+du\s+poste\s+DP\b
\*     |Extension\s+du\s+r[\xe9e]seau\s+HTA\b|LEGENDE\b)\b/i
BT_END_RE ==
  RegExp(Cat(<<WB, Alt(<<Cat(<<LitI(<<"R","a","c","c","o","r","d","e","m","e","n","t">>), Sp, LitI(<<"e","n">>), WB>>),
                         deplacementDp(LitI(<<"e/">>)), deplacementDp(LitI(<<"e">>)),
                         Cat(extensionHta \o <<WB>>), Cat(<<LitI(<<"L","E","G","E","N","D","E">>), WB>>)>>), WB>>))
\* /fusibles?\s*(?<fusibles>\d{2,4})\s*A\b/i
BT_FUSIBLES_RE ==
  RegExp(Cat(<<LitI(<<"f","u","s","i","b","l","e">>), Opt(LitI(<<"s">>)), Ss, Grp(1, Rep(Digit, 2, 4)), Ss, LitI(<<"A">>), WB>>))

\* /\bRaccordement\s+en\b/i
RACCORD_START_RE == RegExp(Cat(<<WB, LitI(<<"R","a","c","c","o","r","d","e","m","e","n","t">>), Sp, LitI(<<"e","n">>), WB>>))
\* /\bA\)/i
RACCORD_END_RE == RegExp(Cat(<<WB, LitI(<<"A">>), Lit(<<")">>)>>))
\* /\b(?:Protection\b|D\xe9placement\s+du\s+poste\s+DP\b|Deplacement\s+du\s+poste\s+DP\b
\*     |Reprise\s+du\s+r[\xe9e]seau\s+BT\s+existant\b|Extension\s+du\s+r[\xe9e]seau\s+HTA\b|LEGENDE\b)\b/i
RACCORD_FALLBACK_END_RE ==
  RegExp(Cat(<<WB, Alt(<<Cat(<<LitI(<<"P","r","o","t","e","c","t","i","o","n">>), WB>>),
                         deplacementDp(LitI(<<"e/">>)), deplacementDp(LitI(<<"e">>)),
                         Cat(repriseBt \o <<WB>>), Cat(extensionHta \o <<WB>>),
                         Cat(<<LitI(<<"L","E","G","E","N","D","E">>), WB>>)>>), WB>>))

\* /\b(D[\xe9e]placement|Cr[\xe9e]ation|Adaptation|Mutation)\s+du\s+poste\s+DP\b/i
POSTE_EVT_START_RE ==
  RegExp(Cat(<<WB, Grp(1, Alt(<<Cat(<<LitI(<<"D">>), eE, LitI(<<"p","l","a","c","e","m","e","n","t">>)>>),
                                Cat(<<LitI(<<"C","r">>), eE, LitI(<<"a","t","i","o","n">>)>>),
                                LitI(<<"A","d","a","p","t","a","t","i","o","n">>), LitI(<<"M","u","t","a","t","i","o","n">>)>>)),
               Sp, LitI(<<"d","u">>), Sp, LitI(<<"p","o","s","t","e">>), Sp, LitI(<<"D","P">>), WB>>))
\* /\bprise\s*1\b/i
POSTE_EVT_END_RE == RegExp(Cat(<<WB, LitI(<<"p","r","i","s","e">>), Ss, Lit(<<"1">>), WB>>))
\* /\badaptation\s+en\s+type\s+(?<type>[A-Z0-9\-]{2,10})\b/i
POSTE_TYPE_APRES_RE ==
  RegExp(Cat(<<WB, LitI(<<"a","d","a","p","t","a","t","i","o","n">>), Sp, LitI(<<"e","n">>), Sp, LitI(<<"t","y","p","e">>), Sp,
               Grp(1, Rep(ClsI(AsciiUpper \cup Digits \cup {"-"}), 2, 10)), WB>>))

\* /\bCABINE\s+HAUTE\b/ and /\bCABINE\s+BASSE\b/, with the flags i and g where the code gives them
CABINE_HAUTE_RE == RegExp(Cat(<<WB, Lit(<<"C","A","B","I","N","E">>), Sp, Lit(<<"H","A","U","T","E">>), WB>>))
CABINE_BASSE_RE == RegExp(Cat(<<WB, Lit(<<"C","A","B","I","N","E">>), Sp, Lit(<<"B","A","S","S","E">>), WB>>))
CABINE_HAUTE_IG_RE == RegExp(Cat(<<WB, LitI(<<"C","A","B","I","N","E">>), Sp, LitI(<<"H","A","U","T","E">>), WB>>))
CABINE_BASSE_IG_RE == RegExp(Cat(<<WB, LitI(<<"C","A","B","I","N","E">>), Sp, LitI(<<"B","A","S","S","E">>), WB>>))
\* new RegExp(`\\b${code}\\b`, "i") and the same with "ig"
codeRe(code) == RegExp(Cat(<<WB, LitI(codeChars(code)), WB>>))
\* /\b(50|100|160|250|400|630|1000)\b/
palierOne == RegExp(Cat(<<WB, palierAlt, WB>>))
\* /\bde\s+type\b/i
DE_TYPE_RE == RegExp(Cat(<<WB, LitI(<<"d","e">>), Sp, LitI(<<"t","y","p","e">>), WB>>))
\* /d['\u2019]une\s+puissance\s+de/i
PUISSANCE_DE_RE ==
  RegExp(Cat(<<LitI(<<"d">>), Cls({"'", "'^"}), LitI(<<"u","n","e">>), Sp, LitI(<<"p","u","i","s","s","a","n","c","e">>), Sp, LitI(<<"d","e">>)>>))
\* /\bet\s+adaptation\b/i
ET_ADAPTATION_RE == RegExp(Cat(<<WB, LitI(<<"e","t">>), Sp, LitI(<<"a","d","a","p","t","a","t","i","o","n">>), WB>>))

\* /\s+/g, /mm[\?\xb2]/gi, /\bAI\b/gi, /\bAl\b/g, /\r?\n/
SPACES_RE == RegExp(Sp)
MM_UNIT_RE == RegExp(Cat(<<LitI(<<"m","m">>), Cls({"?", "^2"})>>))
AI_RE == RegExp(Cat(<<WB, LitI(<<"A","I">>), WB>>))
AL_MIXED_RE == RegExp(Cat(<<WB, Lit(<<"A","l">>), WB>>))
NEWLINE_RE == RegExp(Cat(<<Opt(Lit(<<"\r">>)), Lit(<<"\n">>)>>))

(***************************************************************************)
(* parser.js: the extractors.  li is the lastIndex of the module's global   *)
(* patterns at the time of the call.                                        *)
(***************************************************************************)
freshIndex ==
  [RAC_RE |-> 0, SECTION_RE |-> 0, JONCTION_RE |-> 0, REMONTEE_RE |-> 0,
   PALIER_RE |-> 0, HTA_START_RE |-> 0, HTA_END_RE |-> 0]

\* a variant of shapeSingleOrMany: the plural key as soon as there is an item
shapeAlwaysPlural(keySingular, keyPlural, items) ==
  IF Len(items) = 0 THEN [k \in {keySingular} |-> null] ELSE [k \in {keyPlural} |-> items]

shapeSingleOrMany(keySingular, keyPlural, items) ==
  IF Len(items) = 0 THEN [k \in {keySingular} |-> null]
  ELSE IF Len(items) = 1 THEN [k \in {keySingular} |-> items[1]]
  ELSE [k \in {keyPlural} |-> items]

normalizeSection(raw) ==
  IF raw = <<>> THEN <<>>
  ELSE LET s1 == replace(trim(raw), SPACES_RE, Str(<<" ">>))
           s2 == replace(s1, MM_UNIT_RE, Str(<<"m","m","2">>))
           s3 == replace(s2, AI_RE, Str(<<"A","L">>))
       IN replace(s3, AL_MIXED_RE, Str(<<"A","L">>))

\* m ? m[0] : null, and m ? parseInt(m[1], 10) : null
wholeOf(m) == IF m.found THEN Some(m.m0) ELSE null
numberOf(m) == IF m.found THEN Some(parseInt(m.g1.v)) ELSE null

\* a variant of parsePosteNumero: the last poste number of the text
lastPosteNumero(text) ==
  With(matchAll(text, POSTE_RE, 0), LAMBDA ms : IF ms = <<>> THEN null ELSE Some(ms[Len(ms)].m0))

parsePosteNumero(text) == wholeOf(match(text, POSTE_RE))

deriveInseeFromPoste(poste) ==
  With(match(poste, INSEE_RE), LAMBDA m : IF m.found THEN m.g1 ELSE null)

extractAffaireNum(text) == wholeOf(match(text, RAC_ONE_RE))

extractGlobalPKva(text) == numberOf(match(text, P_KVA_RE))

\* const val = n ? parseInt(n, 10) : 1
countOf(m) == IF m.g1 = null THEN 1 ELSE parseInt(m.g1.v)

\* a variant of maxCount: the counts added up
RECURSIVE sumCount(_, _)
sumCount(ms, k) == IF k = 0 THEN 0 ELSE sumCount(ms, k - 1) + countOf(ms[k])

\* let max = 0; for (const m of matches) max = Math.max(max, val)
RECURSIVE maxCount(_, _)
maxCount(ms, k) == IF k = 0 THEN 0 ELSE Max2(maxCount(ms, k - 1), countOf(ms[k]))

extractAccessoires(txt, li) ==
  IF txt = <<>> THEN [jonctions |-> 0, remontees_aero_souterraines |-> 0, ras |-> FALSE]
  ELSE [jonctions |-> With(matchAll(txt, JONCTION_RE, li.JONCTION_RE), LAMBDA js : maxCount(js, Len(js))),
        remontees_aero_souterraines |->
          With(matchAll(txt, REMONTEE_RE, li.REMONTEE_RE), LAMBDA rs : maxCount(rs, Len(rs))),
        ras |-> test(RAS_RE, txt)]

localWindow(bloc, span, before, after) ==
  IF bloc = <<>> THEN <<>>
  ELSE slice(bloc, Max2(0, span[1] - before), Min2(length(bloc), span[2] + after))

\* a variant of contextBefore: all the text before the section match
wholeBefore(bloc, sIdx) == slice(bloc, 0, sIdx)

\* the backward window of a section match: bloc.slice(Math.max(0, sIdx - 320), sIdx)
contextBefore(bloc, sIdx) == slice(bloc, Max2(0, sIdx - 320), sIdx)

\* the body of the loop of findPairsWithSpans for the section match sm:
\* the item pushed, or nothing
\* parseInt(m[1] || m[2], 10) for a match of LENGTH_RE
lengthOf(lm) == parseInt(IF lm.g1 # null THEN lm.g1.v ELSE lm.g2.v)

pairOf(bloc, sm) ==
  With(contextBefore(bloc, sm.index), LAMBDA ctx :
    IF ~test(CABLE_RE, ctx) THEN <<>>
    ELSE With(matchAll(ctx, LENGTH_RE, 0), LAMBDA matches :
      IF matches = <<>> THEN <<>>
      ELSE With(normalizeSection(sm.g1.v), LAMBDA sec :
        <<[longueur_m |-> lengthOf(matches[Len(matches)]), section |-> sec, liaison |-> "RAS",
           has_plus_1x |-> test(PLUS_1X_RE, sec),
           span |-> <<sm.index, sm.index + length(sm.m0)>>]>>)))

RECURSIVE pairsOf(_, _, _)
pairsOf(bloc, sms, k) == IF k > Len(sms) THEN <<>> ELSE pairOf(bloc, sms[k]) \o pairsOf(bloc, sms, k + 1)

findPairsWithSpans(bloc, li) ==
  IF bloc = <<>> THEN <<>> ELSE pairsOf(bloc, matchAll(bloc, SECTION_RE, li.SECTION_RE), 1)

\* a variant of resetLastIndex: lastIndex left as it is
keepLastIndex(cur) == cur

\* endRe.lastIndex = 0
resetLastIndex(cur) == 0

\* the loop of extractBlocks over the starts from the k-th on; last is
\* endRe.lastIndex when the iteration begins
RECURSIVE blocksFrom(_, _, _, _, _)
blocksFrom(text, starts, k, endRe, last) ==
  IF k > Len(starts) THEN [blocks |-> <<>>, last |-> last]
  ELSE With(exec(endRe, slice(text, starts[k].index, length(text)), resetLastIndex(last)), LAMBDA mend :
         With(blocksFrom(text, starts, k + 1, endRe, IF mend.found THEN mend.end ELSE 0), LAMBDA rest :
           IF ~mend.found THEN rest
           ELSE [blocks |-> <<slice(text, starts[k].index, starts[k].index + mend.index + length(mend.m0))>>
                            \o rest.blocks,
                 last |-> rest.last]))

\* returns the blocks and the lastIndex the call leaves in endRe
extractBlocks(text, startRe, startIndex, endRe, endIndex) ==
  IF text = <<>> THEN [blocks |-> <<>>, last |-> endIndex]
  ELSE blocksFrom(text, matchAll(text, startRe, startIndex), 1, endRe, endIndex)

htaItem(zone, p, li) ==
  [longueur_m |-> p.longueur_m, section |-> p.section, liaison |-> "RAS",
   accessoires |-> extractAccessoires(localWindow(zone, p.span, 500, 600), li)]

\* the items of one block: its pairs without the +1x ones
RECURSIVE htaItemsOf(_, _, _, _)
htaItemsOf(bloc, pairs, k, li) ==
  IF k > Len(pairs) THEN <<>>
  ELSE (IF pairs[k].has_plus_1x THEN <<>> ELSE <<htaItem(bloc, pairs[k], li)>>)
       \o htaItemsOf(bloc, pairs, k + 1, li)

RECURSIVE htaPrimary(_, _, _)
htaPrimary(blocks, k, li) ==
  IF k > Len(blocks) THEN <<>>
  ELSE htaItemsOf(blocks[k], findPairsWithSpans(blocks[k], li), 1, li) \o htaPrimary(blocks, k + 1, li)

\* a variant of sameSpec: no candidate is ever taken for a duplicate
neverSameSpec(items, cand) == FALSE

\* items.some(x => x.longueur_m === cand.longueur_m && x.section === cand.section)
sameSpec(items, cand) ==
  \E j \in 1..Len(items) : items[j].longueur_m = cand.longueur_m /\ items[j].section = cand.section

RECURSIVE appendNew(_, _, _)
appendNew(items, cands, k) ==
  IF k > Len(cands) THEN items
  ELSE appendNew(IF sameSpec(items, cands[k]) THEN items ELSE Append(items, cands[k]), cands, k + 1)

RECURSIVE htaFallback(_, _, _, _, _)
htaFallback(text, hms, k, items, li) ==
  IF k > Len(hms) THEN items
  ELSE With(slice(text, Max2(0, hms[k].index - 700), Min2(length(text), hms[k].index + 1100)), LAMBDA zone :
         htaFallback(text, hms, k + 1,
                     appendNew(items, htaItemsOf(zone, findPairsWithSpans(zone, li), 1, li), 1), li))

\* returns the items and the lastIndex values the call leaves
extractExtensionsHta(text, li) ==
  IF text = <<>> THEN [items |-> <<>>, li |-> li]
  ELSE With(extractBlocks(text, HTA_START_RE, li.HTA_START_RE, HTA_END_RE, li.HTA_END_RE), LAMBDA b :
         [items |-> With(htaPrimary(b.blocks, 1, li), LAMBDA primary :
                      IF Len(primary) <= 1
                      THEN htaFallback(text, matchAll(text, HTA_WORD_RE, 0), 1, primary, li)
                      ELSE primary),
          li |-> [li EXCEPT !.HTA_END_RE = b.last]])

RECURSIVE btItemsOf(_, _, _, _, _)
btItemsOf(bloc, pairs, k, protection, li) ==
  IF k > Len(pairs) THEN <<>>
  ELSE <<[longueur_m |-> pairs[k].longueur_m, section |-> pairs[k].section,
          protection_a |-> protection, liaison |-> "RAS",
          accessoires |-> extractAccessoires(localWindow(bloc, pairs[k].span, 500, 600), li)]>>
       \o btItemsOf(bloc, pairs, k + 1, protection, li)

RECURSIVE btReprisesFrom(_, _, _, _)
btReprisesFrom(text, mss, k, li) ==
  IF k > Len(mss) THEN <<>>
  ELSE With(slice(text, mss[k].index, length(text)), LAMBDA after :
         With(match(after, BT_END_RE), LAMBDA me :
           With(IF me.found THEN slice(after, 0, me.index) ELSE slice(after, 0, 1600), LAMBDA bloc :
             btItemsOf(bloc, findPairsWithSpans(bloc, li), 1, numberOf(match(bloc, BT_FUSIBLES_RE)), li))))
       \o btReprisesFrom(text, mss, k + 1, li)

extractReprisesBt(text, li) ==
  IF text = <<>> THEN <<>> ELSE btReprisesFrom(text, matchAll(text, BT_REPRISE_START_RE, 0), 1, li)

detectTypeRaccordement(bloc) ==
  LET b == toLowerCase(bloc)
  IN IF includes(b, <<"d","e/","p","a","r","t"," ","d","i","r","e","c","t">>) \/ includes(b, <<"d","e","p","a","r","t"," ","d","i","r","e","c","t">>) THEN Some("depart_direct")
     ELSE IF includes(b, <<"d","e/","r","i","v","a","t","i","o","n">>) \/ includes(b, <<"d","e","r","i","v","a","t","i","o","n">>) THEN Some("derivation")
     ELSE null

\* s.match(SECTION_RE) with the g flag: every match from 0, whatever lastIndex was
extractSectionOnly(bloc) ==
  With(matchAll(bloc, SECTION_RE, 0), LAMBDA m :
    IF m = <<>> THEN null ELSE Some(normalizeSection(m[1].m0)))

extractLengthOnly(bloc) ==
  With(match(bloc, LENGTH_RE), LAMBDA m : IF ~m.found THEN null ELSE Some(lengthOf(m)))

\* the bloc of extractRaccordementBt: up to "A)" included, else up to the
\* next heading, else 1200 characters
raccordBloc(after) ==
  With(match(after, RACCORD_END_RE), LAMBDA mend :
    IF mend.found THEN slice(after, 0, mend.index + length(mend.m0))
    ELSE With(match(after, RACCORD_FALLBACK_END_RE), LAMBDA mend2 :
           IF mend2.found THEN slice(after, 0, mend2.index) ELSE slice(after, 0, 1200)))

\* the record of extractRaccordementBt, or null when nothing was found
raccordOf(bloc, typ, section, longueur, li) ==
  IF typ = null /\ section = null /\ longueur = null THEN null
  ELSE [type_raccordement |-> typ, section |-> section, longueur_m |-> longueur,
        accessoires |-> extractAccessoires(bloc, li)]

extractRaccordementBt(text, li) ==
  IF text = <<>> THEN null
  ELSE With(match(text, RACCORD_START_RE), LAMBDA mstart :
         IF ~mstart.found THEN null
         ELSE With(raccordBloc(slice(text, mstart.index, length(text))), LAMBDA bloc :
                raccordOf(bloc, detectTypeRaccordement(bloc), extractSectionOnly(bloc),
                          extractLengthOnly(bloc), li)))

(***************************************************************************)
(* parser.js: poste DP                                                     *)
(***************************************************************************)
RECURSIVE firstCodeIn(_, _)
firstCodeIn(s, k) ==
  IF k > Len(POSTE_TYPES) THEN null
  ELSE IF test(codeRe(POSTE_TYPES[k]), s) THEN Some(POSTE_TYPES[k])
  ELSE firstCodeIn(s, k + 1)

normTypePoste(raw) ==
  IF raw = <<>> THEN null
  ELSE LET s == toUpperCase(raw)
       IN IF test(CABINE_HAUTE_RE, s) THEN Some("CH")
          ELSE IF test(CABINE_BASSE_RE, s) THEN Some("CB")
          ELSE firstCodeIn(s, 1)

extractFirstPosteBlock(text) ==
  With(match(text, POSTE_EVT_START_RE), LAMBDA m :
    IF ~m.found THEN null
    ELSE With(slice(text, m.index, length(text)), LAMBDA after :
           With(match(after, POSTE_EVT_END_RE), LAMBDA me :
             IF me.found THEN Some(slice(after, 0, me.index + length(me.m0)))
             ELSE Some(slice(after, 0, 2200)))))

\* POSTE_PUISSANCES.includes(v) ? v : null
palierOrNull(v) == IF v \in POSTE_PUISSANCES THEN Some(v) ELSE null

\* a variant of firstPalierInWindow: the first number, palier or not
firstNumberInWindow(txt) ==
  With(match(txt, RegExp(Cat(<<WB, Grp(1, Plus(Digit)), WB>>))), LAMBDA m :
    IF ~m.found THEN null ELSE Some(parseInt(m.g1.v)))

firstPalierInWindow(txt) ==
  With(match(txt, palierOne), LAMBDA m : IF ~m.found THEN null ELSE palierOrNull(parseInt(m.g1.v)))

occOf(ms, code) == Seq1([k \in 1..Len(ms) |-> [pos |-> ms[k].index, code |-> code]], Len(ms))

RECURSIVE codeOcc(_, _)
codeOcc(bloc, k) ==
  IF k > Len(POSTE_TYPES) THEN <<>>
  ELSE occOf(matchAll(bloc, codeRe(POSTE_TYPES[k]), 0), POSTE_TYPES[k]) \o codeOcc(bloc, k + 1)

\* occ.sort((a, b) => a[0] - b[0]): a stable sort by position
insertByPos(sorted, x) ==
  LET n == Cardinality({j \in 1..Len(sorted) : sorted[j].pos <= x.pos})
  IN SubSeq(sorted, 1, n) \o <<x>> \o SubSeq(sorted, n + 1, Len(sorted))
RECURSIVE sortByPos(_, _)
sortByPos(occ, k) == IF k = 0 THEN <<>> ELSE insertByPos(sortByPos(occ, k - 1), occ[k])

scanTypeOccurrences(bloc) ==
  IF bloc = <<>> THEN <<>>
  ELSE With(occOf(matchAll(bloc, CABINE_HAUTE_IG_RE, 0), "CH")
            \o occOf(matchAll(bloc, CABINE_BASSE_IG_RE, 0), "CB")
            \o codeOcc(bloc, 1),
            LAMBDA occ : sortByPos(occ, Len(occ)))

\* the pair of one occurrence: the first palier in bloc.slice(pos - 60, pos + 180)
typePowerPair(bloc, o) ==
  [pos |-> o.pos, code |-> o.code,
   puissance_kva |-> firstPalierInWindow(slice(bloc, Max2(0, o.pos - 60), Min2(length(bloc), o.pos + 180)))]

abs(x) == IF x < 0 THEN -x ELSE x

\* a variant of dedupPairs: nothing is collapsed
keepAllPairs(pairs, k) == SubSeq(pairs, 1, k)

\* the de-duplication loop over pairs[1..k]
RECURSIVE dedupPairs(_, _)
dedupPairs(pairs, k) ==
  IF k = 0 THEN <<>>
  ELSE LET dedup == dedupPairs(pairs, k - 1)
           x == pairs[k]
           prev == dedup[Len(dedup)]
       IN IF dedup = <<>> THEN <<x>>
          ELSE IF x.code = prev.code /\ abs(x.pos - prev.pos) < 40
          THEN (IF prev.puissance_kva = null /\ x.puissance_kva # null
                THEN [dedup EXCEPT ![Len(dedup)] = x] ELSE dedup)
          ELSE Append(dedup, x)

buildTypePowerPairs(bloc) ==
  With(scanTypeOccurrences(bloc), LAMBDA occ :
    dedupPairs(Seq1([k \in 1..Len(occ) |-> typePowerPair(bloc, occ[k])], Len(occ)), Len(occ)))

fallbackTypeAvantPower(bloc) ==
  With(match(bloc, DE_TYPE_RE), LAMBDA m :
    IF ~m.found THEN <<null, null>>
    ELSE With(slice(bloc, m.index + length(m.m0), m.index + length(m.m0) + 260), LAMBDA window :
           <<normTypePoste(window), firstPalierInWindow(window)>>))

\* Math.max(...vals)
RECURSIVE maxOf(_, _)
maxOf(vals, k) == IF k = 1 THEN vals[1] ELSE Max2(maxOf(vals, k - 1), vals[k])

\* the paliers of the matches: all.map(x => parseInt(x[1], 10)).filter(...)
paliersOf(all) ==
  SelectSeq(Seq1([k \in 1..Len(all) |-> parseInt(all[k].g1.v)], Len(all)), LAMBDA v : v \in POSTE_PUISSANCES)

\* a variant of fallbackTypeApresPower: the greatest palier of the block,
\* whether the phrase is there or not
maxPalierOfBlock(bloc, li) ==
  With(paliersOf(matchAll(bloc, PALIER_RE, li.PALIER_RE)), LAMBDA vals :
    IF vals # <<>> THEN Some(maxOf(vals, Len(vals))) ELSE null)

fallbackTypeApresPower(bloc, li) ==
  With(match(bloc, PUISSANCE_DE_RE), LAMBDA m :
    IF m.found
    THEN firstPalierInWindow(slice(bloc, m.index + length(m.m0), m.index + length(m.m0) + 90))
    ELSE With(paliersOf(matchAll(bloc, PALIER_RE, li.PALIER_RE)), LAMBDA vals :
           IF vals # <<>> THEN Some(maxOf(vals, Len(vals))) ELSE null))

\* a variant of operationOf: "mutation" is not recognised
operationWithoutMutation(opRaw) ==
  IF includes(opRaw, <<"d","e/","p","l","a","c","e","m","e","n","t">>) \/ includes(opRaw, <<"d","e","p","l","a","c","e","m","e","n","t">>) THEN Some("deplacement")
  ELSE IF includes(opRaw, <<"c","r","e/","a","t","i","o","n">>) \/ includes(opRaw, <<"c","r","e","a","t","i","o","n">>) THEN Some("creation")
  ELSE IF includes(opRaw, <<"a","d","a","p","t","a","t","i","o","n">>) THEN Some("adaptation")
  ELSE null

operationOf(opRaw) ==
  IF includes(opRaw, <<"d","e/","p","l","a","c","e","m","e","n","t">>) \/ includes(opRaw, <<"d","e","p","l","a","c","e","m","e","n","t">>) THEN Some("deplacement")
  ELSE IF includes(opRaw, <<"c","r","e/","a","t","i","o","n">>) \/ includes(opRaw, <<"c","r","e","a","t","i","o","n">>) THEN Some("creation")
  ELSE IF includes(opRaw, <<"a","d","a","p","t","a","t","i","o","n">>) THEN Some("adaptation")
  ELSE IF includes(opRaw, <<"m","u","t","a","t","i","o","n">>) THEN Some("mutation")
  ELSE null

\* the record of extractPosteDpTravaux, or null when every part is null;
\* typeApresCode0 is typeApresCode before the last assignment
travauxOf(op, op2, typeAvantCode, typeAvantKva, typeApresCode0, typeApresCodeFromRaw, typeApresRaw, typeApresKva) ==
  IF op = null /\ typeAvantCode = null /\ typeApresRaw = null /\ typeAvantKva = null /\ typeApresKva = null
  THEN null
  ELSE [operation_principale |-> op, operation_secondaire |-> op2,
        type_avant |-> [code |-> typeAvantCode, puissance_kva |-> typeAvantKva],
        type_apres |-> [code |-> IF typeApresCode0 = null /\ typeApresCodeFromRaw # null
                                 THEN typeApresCodeFromRaw ELSE typeApresCode0,
                        raw |-> typeApresRaw, puissance_kva |-> typeApresKva]]

\* a variant of typeAvantOf: the last pair instead of the first
typeAvantOfLast(bloc, pairs) ==
  IF Len(pairs) >= 1 THEN <<Some(pairs[Len(pairs)].code), pairs[Len(pairs)].puissance_kva>>
  ELSE fallbackTypeAvantPower(bloc)

\* the three branches on pairs.length: [typeAvantCode, typeAvantKva]
typeAvantOf(bloc, pairs) ==
  IF Len(pairs) >= 1 THEN <<Some(pairs[1].code), pairs[1].puissance_kva>> ELSE fallbackTypeAvantPower(bloc)

extractPosteDpTravaux(text, li) ==
  With(extractFirstPosteBlock(text), LAMBDA blocOpt :
    IF blocOpt = null THEN null
    ELSE With(operationOf(With(match(blocOpt.v, POSTE_EVT_START_RE), LAMBDA mOp :
                                 IF mOp.found THEN toLowerCase(mOp.g1.v) ELSE <<>>)), LAMBDA op :
      With(With(match(blocOpt.v, POSTE_TYPE_APRES_RE), LAMBDA mtp :
                  IF mtp.found THEN Some(toUpperCase(trim(mtp.g1.v))) ELSE null), LAMBDA typeApresRaw :
        With(IF typeApresRaw # null THEN normTypePoste(typeApresRaw.v) ELSE null, LAMBDA typeApresCodeFromRaw :
          With(buildTypePowerPairs(blocOpt.v), LAMBDA pairs :
            With(typeAvantOf(blocOpt.v, pairs), LAMBDA avant :
              travauxOf(op,
                        IF op = Some("deplacement") /\ test(ET_ADAPTATION_RE, blocOpt.v)
                        THEN Some("adaptation") ELSE null,
                        avant[1], avant[2],
                        IF Len(pairs) >= 2 THEN Some(pairs[2].code) ELSE typeApresCodeFromRaw,
                        typeApresCodeFromRaw, typeApresRaw,
                        IF Len(pairs) >= 2 THEN pairs[2].puissance_kva
                        ELSE fallbackTypeApresPower(blocOpt.v, li))))))))

(***************************************************************************)
(* parser.js: PDL                                                          *)
(***************************************************************************)
splitLines(txt) == With(split(txt, NEWLINE_RE), LAMBDA ls : Seq1([k \in 1..Len(ls) |-> trim(ls[k])], Len(ls)))

isNoiseLine(ln) ==
  LET u == trim(toUpperCase(ln))
  IN IF ln = <<>> THEN TRUE
     ELSE IF u = <<>> THEN TRUE
     ELSE IF startsWith(u, <<"P","=">>) \/ startsWith(u, <<"P"," ","=">>) THEN TRUE
     ELSE IF includes(u, <<"L","E","G","E","N","D","E">>) THEN TRUE
     ELSE IF includes(u, <<"T","A","N">>) \/ includes(u, <<"P","L","A","T","I","N","E">>) THEN TRUE
     ELSE FALSE

\* the first line after line idx, among the seven that follow, that is
\* neither noise nor a RAC code
nomAfter(lines, idx) ==
  With({j \in (idx + 1)..Min2(Len(lines), idx + 7) :
          ~isNoiseLine(trim(lines[j])) /\ ~test(RAC_ONE_RE, trim(lines[j]))}, LAMBDA J :
    IF J = {} THEN null ELSE Some(trim(lines[Least(J)])))

extractNomDossierFromBlock(block, rac) ==
  With(splitLines(block), LAMBDA lines :
    With({i \in 1..Len(lines) : includes(lines[i], chars(rac))}, LAMBDA I :
      IF I = {} THEN null ELSE nomAfter(lines, Least(I))))

extractPProdFromBlock(block) == numberOf(match(block, P_KVA_RE))

extractPConsoFromBlock(block) == numberOf(match(block, PCONSO_VAL_RE))

extractPrmFromBlock(block) == wholeOf(match(block, PRM14_RE))

extractTypeRaccordementFromBlock(block) ==
  LET b == toLowerCase(block)
  IN IF includes(b, <<"d","e/","p","a","r","t"," ","d","i","r","e","c","t">>) \/ includes(b, <<"d","e","p","a","r","t"," ","d","i","r","e","c","t">>) THEN Some("depart_direct")
     ELSE IF includes(b, <<"d","e/","r","i","v","a","t","i","o","n">>) \/ includes(b, <<"d","e","r","i","v","a","t","i","o","n">>) THEN Some("derivation")
     ELSE null

\* a variant of blockEnd: the block stops one character before the next code
blockEndBeforeNext(text, racMatches, i) ==
  IF i + 1 <= Len(racMatches) THEN racMatches[i + 1].index - 1 ELSE length(text)

\* const end = (i + 1 < racMatches.length) ? racMatches[i + 1].pos : text.length
blockEnd(text, racMatches, i) ==
  IF i + 1 <= Len(racMatches) THEN racMatches[i + 1].index ELSE length(text)

\* a variant of pdlBlock: the block runs to the end of the text
pdlBlockToTextEnd(text, racMatches, i) == slice(text, racMatches[i].index, length(text))

\* text.slice(pos, end) for the i-th match
pdlBlock(text, racMatches, i) == slice(text, racMatches[i].index, blockEnd(text, racMatches, i))

\* SURPLUS_RE.test(block) ? "vente_surplus" : "vente_totale"
modeOf(block) == IF test(SURPLUS_RE, block) THEN "vente_surplus" ELSE "vente_totale"

\* the record pushed for one block
pdlOf(block, rac) ==
  With(modeOf(block), LAMBDA mode :
    [mode |-> mode, num_affaire |-> rac,
     nom_dossier |-> extractNomDossierFromBlock(block, rac),
     p_prod_kva |-> extractPProdFromBlock(block),
     type_raccordement |-> extractTypeRaccordementFromBlock(block)]
    @@ (IF mode = "vente_surplus"
        THEN [prm |-> extractPrmFromBlock(block), p_conso_kva |-> extractPConsoFromBlock(block)]
        ELSE <<>>))

extractPdls(text, li) ==
  IF text = <<>> THEN <<>>
  ELSE With(matchAll(text, RAC_RE, li.RAC_RE), LAMBDA racMatches :
         Seq1([i \in 1..Len(racMatches) |-> pdlOf(pdlBlock(text, racMatches, i), racMatches[i].m0)],
              Len(racMatches)))

(***************************************************************************)
(* parseOcrTextToProject: the record returned and the lastIndex values left *)
(***************************************************************************)
\* a variant of affaireOf: always from the whole text
affaireOfWholeText(text, pdls) == [num |-> extractAffaireNum(text), p_kva |-> extractGlobalPKva(text)]

\* affaire: aligned on the first PDL when there is one
affaireOf(text, pdls) ==
  [num |-> IF Len(pdls) # 0 THEN Some(pdls[1].num_affaire) ELSE extractAffaireNum(text),
   p_kva |-> IF Len(pdls) # 0 THEN pdls[1].p_prod_kva ELSE extractGlobalPKva(text)]

\* a variant of posteDpOf: no insee key without a poste number
posteDpWithoutInsee(poste, travaux) ==
  IF poste = null THEN [numero |-> null, travaux |-> travaux]
  ELSE [numero |-> poste, insee |-> deriveInseeFromPoste(poste.v), travaux |-> travaux]

\* poste_dp
posteDpOf(poste, travaux) ==
  [numero |-> poste, insee |-> IF poste # null THEN deriveInseeFromPoste(poste.v) ELSE null,
   travaux |-> travaux]

parseOcrTextToProject(text, li) ==
  With(extractExtensionsHta(text, li), LAMBDA hta :
    With(extractPdls(text, hta.li), LAMBDA pdls :
      [ret |-> [affaire |-> affaireOf(text, pdls),
                poste_dp |-> posteDpOf(parsePosteNumero(text), extractPosteDpTravaux(text, hta.li)),
                hta |-> shapeSingleOrMany("extension", "extensions", hta.items),
                bt |-> shapeSingleOrMany("reprise", "reprises", extractReprisesBt(text, hta.li))
                       @@ [raccordement |-> extractRaccordementBt(text, hta.li)],
                pdls |-> pdls],
       li |-> hta.li]))

(***************************************************************************)
(* Input texts: a document is made of sections, each in one of a few        *)
(* variants.                                                                *)
(***************************************************************************)
RECURSIVE join(_)
join(parts) == IF parts = <<>> THEN <<>> ELSE concat(Head(parts), join(Tail(parts)))

posteVariants ==
  {<<>>,
   Str(<<"r","e","f"," ","x","1","0","9","1","5","2","P","0","0","0","1","2"," ","p","u","i","s"," ","1","2","4","5","0","P","0","0","2","1"," ","e","t"," ","0","9","1","5","2","P","0","0","0","1","\n">>)}

htaVariants ==
  {<<>>,
   join(<<Str(<<"E","x","t","e","n","s","i","o","n"," ","d","u"," ","r","e/","s","e","a","u"," ","H","T","A"," ","c","a^","b","l","e"," ","1","0"," ","m"," ","3","x","1","5","0"," ","A","L"," ","p","o","s","t","e"," ","s","o","u","r","c","e"," ","a","v","e","c"," ","2"," ","j","o","n","c","t","i","o","n","s","\n">>),
          Str(<<"E","x","t","e","n","s","i","o","n"," ","d","u"," ","r","e/","s","e","a","u"," ","H","T","A"," ","c","a^","b","l","e"," ","2","0"," ","m"," ","3","x","9","5"," ","A","L"," ","p","o","s","t","e"," ","s","o","u","r","c","e","\n">>)>>),
   join(<<Str(<<"E","x","t","e","n","s","i","o","n"," ","d","u"," ","r","e","s","e","a","u"," ","H","T","A"," ","c","a","b","l","e"," ","8","0","m"," ","3","x","9","5"," ","A","I"," ","R","A","S"," ">>), Pad(40),
          Str(<<" ","p","u","i","s"," ","c","a^","b","l","e"," ","3","0"," ","m"," ","3","x","2","4","0"," ","m","m","2"," ","A","l"," ","e","t"," ","1"," ","r","e","m","o","n","t","e/","e"," ","a","e/","r","o","-","s","o","u","t","e","r","r","a","i","n","e"," ","d","u"," ","p","o","s","t","e","-","s","o","u","r","c","e","\n">>)>>),
   Str(<<"E","X","T","E","N","S","I","O","N"," ","D","U"," ","R","E","S","E","A","U"," ","H","T","A"," ","c","a","b","l","e"," ","1","5"," ","m"," ","3","x","5","0"," ","A","L","\n">>)}

btVariants ==
  {<<>>,
   join(<<Str(<<"R","e","p","r","i","s","e"," ","d","u"," ","r","e/","s","e","a","u"," ","B","T"," ","e","x","i","s","t","a","n","t"," ","c","a^","b","l","e"," ","4","5","m"," ","3","x","9","5","+","1","x","5","0","m","m","2"," ","A","L"," ","f","u","s","i","b","l","e","s"," ","2","0","0"," ","A"," ","L","E","G","E","N","D","E","\n">>),
          Str(<<"R","a","c","c","o","r","d","e","m","e","n","t"," ","e","n"," ","d","e/","r","i","v","a","t","i","o","n"," ","3","x","3","5"," ","A","L"," ","1","2"," ","m"," ","A",")","\n">>)>>),
   Str(<<"R","e","p","r","i","s","e"," ","d","u"," ","r","e","s","e","a","u"," ","B","T"," ","e","x","i","s","t","a","n","t"," ","c","a","b","l","e"," ","4","5"," ","m"," ","3","x","9","5"," ","A","L"," ","e","t"," ","c","a","b","l","e"," ","1","2"," ","m"," ","3","x","3","5"," ","+"," ","1","x","3","5"," ","A","I","\n">>)}

travauxVariants ==
  {<<>>,
   Str(<<"D","e/","p","l","a","c","e","m","e","n","t"," ","d","u"," ","p","o","s","t","e"," ","D","P"," ","e","t"," ","a","d","a","p","t","a","t","i","o","n"," ","e","n"," ","t","y","p","e"," ","P","R","C","S"," ","H","6","1"," ","1","0","0"," ","k","V","A"," ","v","e","r","s"," ","P","R","C","S"," ","1","6","0"," ","k","V","A"," ","p","r","i","s","e"," ","1","\n">>),
   Str(<<"C","r","e/","a","t","i","o","n"," ","d","u"," ","p","o","s","t","e"," ","D","P"," ","d","e"," ","t","y","p","e"," ","P","A","C"," ","7","5"," ","k","V","A"," ","d","'","u","n","e"," ","p","u","i","s","s","a","n","c","e"," ","d","e"," ","2","5","0"," ","k","V","A","\n">>),
   Str(<<"A","d","a","p","t","a","t","i","o","n"," ","d","u"," ","p","o","s","t","e"," ","D","P"," ","d","e"," ","t","y","p","e"," ","r","u","r","a","l"," ","4","5"," ","k","V","A"," ","p","u","i","s"," ","4","0","0"," ","k","V","A","\n">>)}

pdlVariants ==
  {<<>>,
   Str(<<"P"," ","="," ","1","0"," ","K","V","A","\n","R","A","C","-","A","B","C","-","1","2","-","3","4","5","6","7","8","\n","D","o","s","s","i","e","r"," ","A","l","p","h","a","\n","P"," ","="," ","3","6"," ","K","V","A","\n">>),
   Str(<<"p","=","1","2"," ","k","v","a","\n">>),
   Str(<<"P"," ","="," ","1","0"," ","K","V","A","\n","R","A","C","-","A","B","C","-","1","2","-","3","4","5","6","7","8","\n","L","E","G","E","N","D","E","\n","F","e","r","m","e"," ","B","e","t","a","\n","R","A","C","-","X","Y","Z","-","0","1","-","0","0","0","0","0","2"," ","S","u","r","p","l","u","s","\n","P"," ","="," ","9"," ","K","V","A"," ","P","R","M"," ","1","2","3","4","5","6","7","8","9","0","1","2","3","4"," ","P","c","o","n","s","o"," ","="," ","3"," ","K","V","A","\n">>)}

nonEmpty(parts) == Cardinality({k \in 1..Len(parts) : parts[k] # <<>>})

\* the sections present in one document
MaxSections == 2

\* the texts the OCR returns for a page
Documents ==
  {join(d) : d \in {x \in posteVariants \X htaVariants \X btVariants \X travauxVariants \X pdlVariants :
                      nonEmpty(x) <= MaxSections}}

\* the texts made of at most n parts
Texts(parts, n) == {join(s) : s \in UNION {[1..m -> parts] : m \in 0..n}}
\* the same, no part taken twice
TextsOnce(parts, n) ==
  {join(s) : s \in {x \in UNION {[1..m -> parts] : m \in 0..n} :
                      \A i, j \in 1..Len(x) : x[i] = x[j] => i = j}}

(***************************************************************************)
(* The page: app.js keeps the text and the record of the last run.  pc is  *)
(* "idle" with no PDF, "loaded" with a PDF and no run, "ocr" while a run     *)
(* waits for the OCR, "done" after a run.  One run at a time: the handlers   *)
(* that could fire while a run waits are left out.                           *)
(***************************************************************************)
Init ==
  /\ arg = <<>>
  /\ ret = null
  /\ lastIndex = freshIndex
  /\ indexAtCall = freshIndex
  /\ pc = "idle"

\* app.js 337-349, the two module variables
resetOutputs ==
  /\ arg' = <<>>
  /\ ret' = null

\* app.js 63-87: a PDF is chosen; the outputs are cleared
PdfChange ==
  /\ pc \in {"idle", "loaded", "done"}
  /\ resetOutputs
  /\ pc' = "loaded"
  /\ UNCHANGED <<lastIndex, indexAtCall>>

\* app.js 102-106: the click on "run", with a PDF loaded, clears the outputs;
\* the handler then waits for the OCR
RunClick ==
  /\ pc \in {"loaded", "done"}
  /\ resetOutputs
  /\ indexAtCall' = lastIndex
  /\ pc' = "ocr"
  /\ UNCHANGED lastIndex

\* app.js 141: fullText += `\n===== PAGE ${pno} =====\n` + ocrText.trim() + "\n", for page 1
pageText(ocrText) == concat(concat(Str(<<"\n","=","=","=","=","="," ","P","A","G","E"," ","1"," ","=","=","=","=","=","\n">>), trim(ocrText)), Str(<<"\n">>))

\* app.js 148-152: the text of the pages is trimmed and parsed
RunParse(ocrText) ==
  /\ pc = "ocr"
  /\ arg' = trim(pageText(ocrText))
  /\ \E r \in {parseOcrTextToProject(arg', lastIndex)} :
        /\ ret' = r.ret
        /\ lastIndex' = r.li
  /\ pc' = "done"
  /\ UNCHANGED indexAtCall

\* app.js 89-101: the click on "reset" drops the PDF and clears the outputs
ResetClick ==
  /\ pc \in {"loaded", "done"}
  /\ resetOutputs
  /\ pc' = "idle"
  /\ UNCHANGED <<lastIndex, indexAtCall>>

Next ==
  \/ PdfChange
  \/ RunClick
  \/ \E ocrText \in Documents : RunParse(ocrText)
  \/ ResetClick

Spec == Init /\ [][Next]_vars

(***************************************************************************)
(* extractPdls alone, on texts made of a few parts                          *)
(***************************************************************************)
pdlParts ==
  {Str(<<"R","A","C","-","A","B","C","-","1","2","-","3","4","5","6","7","8","\n","D","o","s","s","i","e","r"," ","A","l","p","h","a","\n">>),
   Str(<<"R","A","C","-","X","Y","Z","-","0","1","-","0","0","0","0","0","2"," ">>),
   Str(<<"P"," ","="," ","3","6"," ","K","V","A","\n">>),
   Str(<<"S","U","R","P","L","U","S"," ">>),
   Str(<<"v","e","n","t","e"," ","e","n"," ","s","u","r","p","l","u","s","\n">>),
   Str(<<"A","U","T","O","S","U","R","P","L","U","S"," ","x","R","A","C","-","A","B","C","-","1","2","-","3","4","5","6","7","8","9"," ">>),
   Str(<<"P","R","M"," ","1","2","3","4","5","6","7","8","9","0","1","2","3","4"," ","P","c","o","n","s","o"," ","="," ","3"," ","K","V","A","\n">>)}

MaxPdlParts == 3

InitPdls ==
  /\ arg \in Texts(pdlParts, MaxPdlParts)
  /\ ret = null
  /\ lastIndex = freshIndex
  /\ indexAtCall = freshIndex
  /\ pc = "idle"

CallExtractPdls ==
  /\ pc = "idle"
  /\ ret' = extractPdls(arg, lastIndex)
  /\ pc' = "done"
  /\ UNCHANGED <<arg, lastIndex, indexAtCall>>

NextPdls == CallExtractPdls

SpecPdls == InitPdls /\ [][NextPdls]_vars

(***************************************************************************)
(* findPairsWithSpans alone                                                 *)
(***************************************************************************)
pairParts ==
  {Str(<<"c","a^","b","l","e"," ","4","5","m"," ">>),
   Str(<<"C","A","B","L","E"," ">>),
   Str(<<"1","2","0"," ","m"," ">>),
   Str(<<"3","x","1","5","0","m","m","^2"," ","A","L"," ">>),
   Str(<<"3","x","9","5","+","1","x","5","0"," ","A","I"," ">>),
   Pad(308)}

MaxPairParts == 4

InitPairs ==
  /\ arg \in TextsOnce(pairParts, MaxPairParts)
  /\ ret = null
  /\ lastIndex = freshIndex
  /\ indexAtCall = freshIndex
  /\ pc = "idle"

CallFindPairs ==
  /\ pc = "idle"
  /\ ret' = findPairsWithSpans(arg, lastIndex)
  /\ pc' = "done"
  /\ UNCHANGED <<arg, lastIndex, indexAtCall>>

NextPairs == CallFindPairs

SpecPairs == InitPairs /\ [][NextPairs]_vars

(***************************************************************************)
(* extractAccessoires alone                                                 *)
(***************************************************************************)
accParts ==
  {Str(<<"3"," ","j","o","n","c","t","i","o","n","s"," ">>),
   Str(<<"5"," ","j","o","n","c","t","i","o","n","s"," ">>),
   Str(<<"j","o","n","c","t","i","o","n"," ">>),
   Str(<<"v","i","a"," ","2"," ","j","o","n","c","t","i","o","n","s"," ">>),
   Str(<<"1","2"," ","r","e","m","o","n","t","e/","e","s"," ","a","e/","r","o","-","s","o","u","t","e","r","r","a","i","n","e","s"," ">>),
   Str(<<"r","e","m","o","n","t","e","e"," ","a","e","r","o"," ","s","o","u","t","e","r","r","a","i","n","e"," ">>),
   Str(<<"R","A","S"," ">>)}

MaxAccParts == 3

InitAcc ==
  /\ arg \in Texts(accParts, MaxAccParts)
  /\ ret = null
  /\ lastIndex = freshIndex
  /\ indexAtCall = freshIndex
  /\ pc = "idle"

CallExtractAccessoires ==
  /\ pc = "idle"
  /\ ret' = extractAccessoires(arg, lastIndex)
  /\ pc' = "done"
  /\ UNCHANGED <<arg, lastIndex, indexAtCall>>

NextAcc == CallExtractAccessoires

SpecAcc == InitAcc /\ [][NextAcc]_vars

(***************************************************************************)
(* Properties                                                              *)
(***************************************************************************)
\* the RAC codes of a text, in document order
racCodes(text) == matchAll(text, RAC_RE, 0)
\* where the block of the i-th RAC code stops: at the next code, or at the end
nextRac(text, ms, i) == IF i < Len(ms) THEN ms[i + 1].index ELSE length(text)

\* C1: extractPdls returns one record per RAC code of the text, in document
\* order, record i carrying the i-th code; the blocks the records are
\* computed from go from one code to the next (the last one to the end of
\* the text), so that put end to end they are the text from the first code
\* on, with no overlap and no gap.
C1_OneRecordPerRacCode ==
  pc = "done" =>
    LET ms == racCodes(arg)
    IN /\ Len(ret) = Len(ms)
       /\ \A i \in 1..Len(ms) :
            /\ ret[i].num_affaire = ms[i].m0
            /\ pdlBlock(arg, ms, i) = slice(arg, ms[i].index, nextRac(arg, ms, i))
            /\ ret[i] = pdlOf(slice(arg, ms[i].index, nextRac(arg, ms, i)), ms[i].m0)
       /\ ms # <<>> =>
            join([i \in 1..Len(ms) |-> pdlBlock(arg, ms, i)]) = slice(arg, ms[1].index, length(arg))

\* two codes, text before the first one
C1_TwoBlocksAfterPreamble ==
  /\ pc = "done"
  /\ Len(ret) = 2
  /\ racCodes(arg)[1].index > 0
  /\ ret[1].num_affaire # ret[2].num_affaire

\* "P" followed by "=", spaces allowed between them
pEqualsAt(t, k) ==
  /\ t[k].c \in {"P", "p"}
  /\ \E j \in (k + 1)..Len(t) : t[j].c = "=" /\ \A i \in (k + 1)..(j - 1) : t[i].c \in Spaces

\* C2: with at least one PDL, affaire.num and affaire.p_kva are the
\* num_affaire and the p_prod_kva of the first PDL, null included; with no
\* PDL they are the first RAC code and the first "P = <digits> KVA" of the
\* whole text, or null; a text with no RAC code and no "P=" gives null and null.
C2_AffaireAlignedOnFirstPdl ==
  pc = "done" =>
    IF Len(ret.pdls) # 0
    THEN /\ ret.affaire.num = Some(ret.pdls[1].num_affaire)
         /\ ret.affaire.p_kva = ret.pdls[1].p_prod_kva
    ELSE /\ ret.affaire.num = wholeOf(match(arg, RAC_ONE_RE))
         /\ ret.affaire.p_kva = numberOf(match(arg, P_KVA_RE))
         /\ (~includes(arg, <<"R","A","C","-">>) /\ ~\E k \in 1..Len(arg) : pEqualsAt(arg, k))
              => ret.affaire = [num |-> null, p_kva |-> null]

\* the first PDL has no power although the text has one before the first code
C2_FirstPdlWithoutPower ==
  /\ pc = "done"
  /\ Len(ret.pdls) # 0
  /\ ret.pdls[1].p_prod_kva = null
  /\ numberOf(match(arg, P_KVA_RE)) # null
  /\ ret.affaire.p_kva = null

\* rec is the shaping of items under the two keys
isShaped(rec, keySingular, keyPlural, items) ==
  IF Len(items) = 0 THEN DOMAIN rec = {keySingular} /\ rec[keySingular] = null
  ELSE IF Len(items) = 1 THEN DOMAIN rec = {keySingular} /\ rec[keySingular] = items[1]
  ELSE DOMAIN rec = {keyPlural} /\ rec[keyPlural] = items

\* C3: hta, and bt without its raccordement key, carry exactly one of the
\* singular and the plural key: no item gives the singular key with null,
\* one item gives the singular key with the item, two or more give the
\* plural key with the items in extraction order; bt always has the key
\* raccordement.
C3_ShapingLaw ==
  pc = "done" =>
    /\ isShaped(ret.hta, "extension", "extensions", extractExtensionsHta(arg, indexAtCall).items)
    /\ "raccordement" \in DOMAIN ret.bt
    /\ isShaped([k \in DOMAIN ret.bt \ {"raccordement"} |-> ret.bt[k]], "reprise", "reprises",
                extractReprisesBt(arg, indexAtCall))
    /\ "extensions" \in DOMAIN ret.hta => Len(ret.hta.extensions) >= 2
    /\ "reprises" \in DOMAIN ret.bt => Len(ret.bt.reprises) >= 2

\* several extensions and a single reprise in one record
C3_PluralAndSingular ==
  /\ pc = "done"
  /\ DOMAIN ret.hta = {"extensions"}
  /\ Len(ret.hta.extensions) >= 2
  /\ DOMAIN ret.bt = {"reprise", "raccordement"}
  /\ ret.bt.reprise # null

\* the record of a text with no evidence
emptyProject ==
  [affaire |-> [num |-> null, p_kva |-> null],
   poste_dp |-> [numero |-> null, insee |-> null, travaux |-> null],
   hta |-> [extension |-> null],
   bt |-> [reprise |-> null, raccordement |-> null],
   pdls |-> <<>>]

C5_SameRecordAsFirstCall ==
  pc = "done" => ret = parseOcrTextToProject(arg, freshIndex).ret

\* a call that began with a lastIndex of HTA_END_RE beyond the end of the
\* first HTA block of its text
C5_CallAfterStaleIndex ==
  /\ pc = "done"
  /\ extractBlocks(arg, HTA_START_RE, 0, HTA_END_RE, 0).blocks # <<>>
  /\ indexAtCall.HTA_END_RE > length(extractBlocks(arg, HTA_START_RE, 0, HTA_END_RE, 0).blocks[1])
  /\ DOMAIN ret.hta = {"extensions"}

\* five digits, "P", four digits standing as a word at cell k
posteAt(t, k) ==
  /\ k + 9 <= Len(t)
  /\ \A j \in 0..4 : t[k + j].c \in Digits
  /\ t[k + 5].c = "P"
  /\ \A j \in 6..9 : t[k + j].c \in Digits
  /\ ~isWordAt(t, k - 1)
  /\ ~isWordAt(t, k + 10)

\* C6: poste_dp.numero is the first poste number of the text (five digits,
\* "P", four digits, standing as a word), or null when there is none; insee
\* is the first five characters of numero, and null when numero is null.
C6_PosteNumeroAndInsee ==
  pc = "done" =>
    LET K == {k \in 1..Len(arg) : posteAt(arg, k)}
    IN IF K = {} THEN ret.poste_dp.numero = null /\ ret.poste_dp.insee = null
       ELSE /\ ret.poste_dp.numero = Some(cells(arg, Least(K), Least(K) + 9))
            /\ ret.poste_dp.insee = Some(slice(ret.poste_dp.numero.v, 0, 5))

\* the first number of a text with two of them, after a longer run of digits
C6_FirstOfTwoNumbers ==
  /\ pc = "done"
  /\ Cardinality({k \in 1..Len(arg) : posteAt(arg, k)}) >= 2
  /\ ret.poste_dp.numero = Some(Str(<<"1","2","4","5","0","P","0","0","2","1">>))
  /\ ret.poste_dp.insee = Some(Str(<<"1","2","4","5","0">>))

\* the word "cable", with or without the accent, in any letter case
cableIn(t) == includes(toLowerCase(t), <<"c","a^","b","l","e">>) \/ includes(toLowerCase(t), <<"c","a","b","l","e">>)
\* the 320 characters before a section token
before320(bloc, sm) == slice(bloc, Max2(0, sm.index - 320), sm.index)
\* the length mentions of a window
lengthsIn(w) == matchAll(w, LENGTH_RE, 0)

\* C7: findPairsWithSpans keeps a section token only if "cable" occurs in
\* the 320 characters before it, whatever lengths that window holds; the
\* pairs are the tokens with "cable" and a length in that window, in order,
\* each with the last length of its window.
C7_CableWithin320 ==
  pc = "done" =>
    LET sms == matchAll(arg, SECTION_RE, 0)
        kept == SelectSeq(sms, LAMBDA sm : cableIn(before320(arg, sm)) /\ lengthsIn(before320(arg, sm)) # <<>>)
    IN /\ Len(ret) = Len(kept)
       /\ \A k \in 1..Len(kept) :
            /\ ret[k].span[1] = kept[k].index
            /\ \E j \in 1..Len(lengthsIn(before320(arg, kept[k]))) :
                 LET L == lengthsIn(before320(arg, kept[k]))
                 IN /\ \A i \in 1..Len(L) : L[i].index <= L[j].index
                    /\ ret[k].longueur_m = lengthOf(L[j])
       /\ \A j \in 1..Len(sms) :
            ~cableIn(before320(arg, sms[j])) => \A k \in 1..Len(ret) : ret[k].span[1] # sms[j].index

\* a section token with lengths in its window and "cable" only further back
C7_CableTooFarBack ==
  /\ pc = "done"
  /\ ret = <<>>
  /\ \E j \in 1..Len(matchAll(arg, SECTION_RE, 0)) :
       LET sm == matchAll(arg, SECTION_RE, 0)[j]
       IN /\ ~cableIn(before320(arg, sm))
          /\ lengthsIn(before320(arg, sm)) # <<>>
          /\ cableIn(slice(arg, 0, sm.index))

\* the greatest of the counts of the matches, 0 when there is none
greatestCount(ms) ==
  LET S == {countOf(ms[k]) : k \in 1..Len(ms)} \cup {0}
  IN CHOOSE m \in S : \A x \in S : x <= m

\* C8: jonctions and remontees_aero_souterraines are each the greatest
\* count among the matches of their vocabulary (1 for a match without a
\* cardinal, 0 without a match), not the sum: "3 jonctions" then
\* "5 jonctions" gives 5.
C8_GreatestCountNotSum ==
  pc = "done" =>
    /\ ret.jonctions = greatestCount(matchAll(arg, JONCTION_RE, 0))
    /\ ret.remontees_aero_souterraines = greatestCount(matchAll(arg, REMONTEE_RE, 0))
    /\ arg = join(<<Str(<<"3"," ","j","o","n","c","t","i","o","n","s"," ">>), Str(<<"5"," ","j","o","n","c","t","i","o","n","s"," ">>)>>) => ret.jonctions = 5

\* "3 jonctions" then "5 jonctions"
C8_ThreeThenFive ==
  /\ pc = "done"
  /\ arg = join(<<Str(<<"3"," ","j","o","n","c","t","i","o","n","s"," ">>), Str(<<"5"," ","j","o","n","c","t","i","o","n","s"," ">>)>>)
  /\ ret.jonctions = 5

\* null or a palier
palierOrNone(p) == p = null \/ (p.v \in POSTE_PUISSANCES)

\* C9: in travaux, when it is not null, the puissance_kva of type_avant and
\* of type_apres are each null or one of 50, 100, 160, 250, 400, 630, 1000.
C9_PuissanceIsPalier ==
  (pc = "done" /\ ret.poste_dp.travaux # null) =>
    /\ palierOrNone(ret.poste_dp.travaux.type_avant.puissance_kva)
    /\ palierOrNone(ret.poste_dp.travaux.type_apres.puissance_kva)

\* a type code followed by a number that is no palier, then by a palier
C9_NumberThatIsNoPalier ==
  /\ pc = "done"
  /\ includes(arg, <<"P","A","C"," ","7","5"," ","k","V","A">>)
  /\ ret.poste_dp.travaux # null
  /\ ret.poste_dp.travaux.type_avant.puissance_kva = Some(250)

\* the word SURPLUS in any letter case at cell k
surplusAt(t, k) ==
  /\ k + 6 <= Len(t)
  /\ \A j \in 1..7 : toUpperChar(t[k + j - 1].c) = <<"S","U","R","P","L","U","S">>[j]
  /\ ~isWordAt(t, k - 1)
  /\ ~isWordAt(t, k + 7)

\* C10: a PDL has the keys prm and p_conso_kva exactly when its mode is
\* "vente_surplus"; its mode is "vente_surplus" exactly when its own block,
\* from its RAC code to the next one, holds the word SURPLUS (in any letter
\* case), and "vente_totale" otherwise.
C10_SurplusKeysAndOwnBlock ==
  pc = "done" =>
    LET ms == racCodes(arg)
    IN \A i \in 1..Len(ret) :
         LET own == slice(arg, ms[i].index, nextRac(arg, ms, i))
         IN /\ ret[i].mode \in {"vente_surplus", "vente_totale"}
            /\ ("prm" \in DOMAIN ret[i]) <=> (ret[i].mode = "vente_surplus")
            /\ ("p_conso_kva" \in DOMAIN ret[i]) <=> (ret[i].mode = "vente_surplus")
            /\ (ret[i].mode = "vente_surplus") <=> (\E k \in 1..Len(own) : surplusAt(own, k))

\* SURPLUS in the block of the second PDL only
C10_SurplusInNextBlockOnly ==
  /\ pc = "done"
  /\ Len(ret) = 2
  /\ ret[1].mode = "vente_totale"
  /\ "prm" \notin DOMAIN ret[1]
  /\ ret[2].mode = "vente_surplus"
  /\ "prm" \in DOMAIN ret[2]

(***************************************************************************)
(* extractExtensionsHta and extractReprisesBt alone, on the same texts      *)
(***************************************************************************)
htaParts ==
  {Str(<<"E","x","t","e","n","s","i","o","n"," ","d","u"," ","r","e/","s","e","a","u"," ","H","T","A"," ","c","a^","b","l","e"," ","1","0"," ","m"," ","3","x","1","5","0"," ","A","L"," ","p","o","s","t","e"," ","s","o","u","r","c","e","\n">>),
   Str(<<"E","x","t","e","n","s","i","o","n"," ","d","u"," ","r","e/","s","e","a","u"," ","H","T","A"," ">>),
   Str(<<"p","o","s","t","e"," ","s","o","u","r","c","e","\n">>),
   Str(<<"c","a^","b","l","e"," ","3","0"," ","m"," ","3","x","2","4","0"," ","+"," ","1","x","9","5"," ","A","L"," ">>),
   Str(<<"R","e","p","r","i","s","e"," ","d","u"," ","r","e/","s","e","a","u"," ","B","T"," ","e","x","i","s","t","a","n","t"," ","c","a^","b","l","e"," ","2","0"," ","m"," ","3","x","9","5","+","1","x","5","0"," ","A","I"," ">>),
   Str(<<"c","a^","b","l","e"," ","2","0"," ","m"," ","3","x","9","5"," ","A","L"," ">>)}

MaxHtaParts == 3

\* the texts of at most MaxHtaParts parts where only the complete block
\* comes more than once
htaTexts ==
  {join(s) : s \in {x \in UNION {[1..m -> htaParts] : m \in 0..MaxHtaParts} :
                      \A i, j \in 1..Len(x) :
                        x[i] = x[j] =>
                          (i = j \/ x[i] = Str(<<"E","x","t","e","n","s","i","o","n"," ","d","u"," ","r","e/","s","e","a","u"," ","H","T","A"," ","c","a^","b","l","e"," ","1","0"," ","m"," ","3","x","1","5","0"," ","A","L"," ","p","o","s","t","e"," ","s","o","u","r","c","e","\n">>))}}

InitHta ==
  /\ arg \in htaTexts
  /\ ret = null
  /\ lastIndex = freshIndex
  /\ indexAtCall = freshIndex
  /\ pc = "idle"

CallExtractExtensionsHta ==
  /\ pc = "idle"
  /\ ret' = extractExtensionsHta(arg, lastIndex).items
  /\ pc' = "hta"
  /\ UNCHANGED <<arg, lastIndex, indexAtCall>>

CallExtractReprisesBt ==
  /\ pc = "idle"
  /\ ret' = extractReprisesBt(arg, lastIndex)
  /\ pc' = "bt"
  /\ UNCHANGED <<arg, lastIndex, indexAtCall>>

NextHta == CallExtractExtensionsHta \/ CallExtractReprisesBt

SpecHta == InitHta /\ [][NextHta]_vars

\* what the deduplication compares
specOf(x) == <<x.longueur_m, x.section>>

\* the items of the anchored pass
primaryItems(text) ==
  htaPrimary(extractBlocks(text, HTA_START_RE, 0, HTA_END_RE, 0).blocks, 1, freshIndex)

\* the candidates of the windows around the bare "HTA" occurrences, window
\* after window
RECURSIVE htaCandidates(_, _, _)
htaCandidates(text, hms, k) ==
  IF k > Len(hms) THEN <<>>
  ELSE With(slice(text, Max2(0, hms[k].index - 700), Min2(length(text), hms[k].index + 1100)), LAMBDA zone :
         htaItemsOf(zone, findPairsWithSpans(zone, freshIndex), 1, freshIndex))
       \o htaCandidates(text, hms, k + 1)

\* C11: with two or more items from the anchored pass the result is these
\* items and nothing else; with at most one, the result begins with that
\* item, no two items of the result have the same (longueur_m, section),
\* every candidate of the windows around "HTA" has its (longueur_m, section)
\* in the result, and each item added is the first candidate with its
\* (longueur_m, section), in the order the candidates come.
C11_FallbackAddsOnlyNewSpecs ==
  pc = "hta" =>
    LET P == primaryItems(arg)
        C == htaCandidates(arg, matchAll(arg, HTA_WORD_RE, 0), 1)
        firstOf(j) == CHOOSE k \in 1..Len(C) :
                        /\ specOf(C[k]) = specOf(ret[j])
                        /\ \A i \in 1..(k - 1) : specOf(C[i]) # specOf(ret[j])
    IN IF Len(P) >= 2 THEN ret = P
       ELSE /\ Len(ret) >= Len(P)
            /\ SubSeq(ret, 1, Len(P)) = P
            /\ \A i, j \in 1..Len(ret) : specOf(ret[i]) = specOf(ret[j]) => i = j
            /\ \A k \in 1..Len(C) : \E j \in 1..Len(ret) : specOf(ret[j]) = specOf(C[k])
            /\ \A j \in (Len(P) + 1)..Len(ret) :
                 /\ \E k \in 1..Len(C) : specOf(C[k]) = specOf(ret[j])
                 /\ ret[j] = C[firstOf(j)]
            /\ \A i, j \in (Len(P) + 1)..Len(ret) : i < j => firstOf(i) < firstOf(j)

\* one item from the anchored pass, found again by the fallback pass, which
\* adds another one
C11_PrimaryItemFoundAgain ==
  /\ pc = "hta"
  /\ Len(primaryItems(arg)) = 1
  /\ Len(ret) >= 2
  /\ ret[1] = primaryItems(arg)[1]
  /\ \E k \in 1..Len(htaCandidates(arg, matchAll(arg, HTA_WORD_RE, 0), 1)) :
       specOf(htaCandidates(arg, matchAll(arg, HTA_WORD_RE, 0), 1)[k]) = specOf(ret[1])

\* the pairs of the blocks of extractReprisesBt, flagged or not
RECURSIVE btPairs(_, _, _)
btPairs(text, mss, k) ==
  IF k > Len(mss) THEN <<>>
  ELSE With(slice(text, mss[k].index, length(text)), LAMBDA after :
         With(match(after, BT_END_RE), LAMBDA me :
           findPairsWithSpans(IF me.found THEN slice(after, 0, me.index) ELSE slice(after, 0, 1600),
                              freshIndex)))
       \o btPairs(text, mss, k + 1)

\* a section with a second conductor: "+", white space or none, "1x"
hasSecondConductor(section) ==
  test(RegExp(Cat(<<Lit(<<"+">>), Star(Space), LitI(<<"1","x">>)>>)), section)

\* C14: no item of extractExtensionsHta, from the anchored pass or from the
\* fallback pass, has a section with a second conductor "+ 1x<digits>",
\* with or without white space around the "+" (the flag findPairsWithSpans
\* puts on such pairs is what excludes them); extractReprisesBt returns the
\* pairs of its blocks, these included.
C14_NoSecondConductorInHta ==
  /\ pc = "hta" =>
       \A k \in 1..Len(ret) : ~hasSecondConductor(ret[k].section)
  /\ pc = "bt" =>
       LET P == btPairs(arg, matchAll(arg, BT_REPRISE_START_RE, 0), 1)
       IN /\ Len(ret) = Len(P)
          /\ \A k \in 1..Len(P) : ret[k].section = P[k].section /\ ret[k].longueur_m = P[k].longueur_m

(***************************************************************************)
(* extractPosteDpTravaux alone                                              *)
(***************************************************************************)
travauxParts ==
  {Str(<<"D","e/","p","l","a","c","e","m","e","n","t"," ","d","u"," ","p","o","s","t","e"," ","D","P"," ","e","t"," ","a","d","a","p","t","a","t","i","o","n"," ","e","n"," ","t","y","p","e"," ","P","R","C","S"," ">>),
   Str(<<"M","U","T","A","T","I","O","N"," ","D","U"," ","P","O","S","T","E"," ","D","P"," ">>),
   Str(<<"H","6","1"," ","1","0","0"," ","k","V","A"," ","v","e","r","s"," ","P","A","C"," ","1","6","0"," ","k","V","A"," ">>),
   Str(<<"1","6","0"," ","k","V","A"," ">>),
   Str(<<"d","'","u","n","e"," ","p","u","i","s","s","a","n","c","e"," ","d","e"," ","7","5"," ","k","V","A"," ">>),
   Str(<<"d","'^","u","n","e"," ","p","u","i","s","s","a","n","c","e"," ","d","e"," ","2","5","0"," ","k","V","A"," ">>),
   Str(<<"p","r","i","s","e"," ","1"," ">>),
   Str(<<"a","d","a","p","t","a","t","i","o","n"," ","d","u"," ","p","o","s","t","e"," ","s","o","u","r","c","e"," ">>)}

MaxTravauxParts == 3

InitTravaux ==
  /\ arg \in TextsOnce(travauxParts, MaxTravauxParts)
  /\ ret = null
  /\ lastIndex = freshIndex
  /\ indexAtCall = freshIndex
  /\ pc = "idle"

CallExtractPosteDpTravaux ==
  /\ pc = "idle"
  /\ ret' = extractPosteDpTravaux(arg, lastIndex)
  /\ pc' = "travaux"
  /\ UNCHANGED <<arg, lastIndex, indexAtCall>>

NextTravaux == CallExtractPosteDpTravaux

SpecTravaux == InitTravaux /\ [][NextTravaux]_vars

\* the (code, power) pairs of the first poste block of the text, none when
\* there is no block
pairsOfText(text) ==
  With(extractFirstPosteBlock(text), LAMBDA b : IF b = null THEN <<>> ELSE buildTypePowerPairs(b.v))

\* the code and the power of a pair, as the record gives them
avantOfPair(p) == [code |-> Some(p.code), puissance_kva |-> p.puissance_kva]

\* C12: with two or more pairs after collapsing, type_avant is the code and
\* the power of the first pair and type_apres has the code and the power
\* of the second, whatever pairs follow and whatever type an "adaptation en
\* type" phrase names; with exactly one pair, type_avant is that pair.
C12_FirstAndSecondPair ==
  pc = "travaux" =>
    LET pairs == pairsOfText(arg)
    IN /\ Len(pairs) >= 1 => (ret # null /\ ret.type_avant = avantOfPair(pairs[1]))
       /\ Len(pairs) >= 2 =>
            /\ ret.type_apres.code = Some(pairs[2].code)
            /\ ret.type_apres.puissance_kva = pairs[2].puissance_kva

\* three pairs, and an "adaptation en type" phrase naming another type than
\* the second pair
C12_ThreePairsAndAdaptationPhrase ==
  /\ pc = "travaux"
  /\ Len(pairsOfText(arg)) >= 3
  /\ ret.type_apres.raw # null
  /\ normTypePoste(ret.type_apres.raw.v) # null
  /\ normTypePoste(ret.type_apres.raw.v) # ret.type_apres.code
  /\ ret.type_apres.code = Some(pairsOfText(arg)[2].code)

\* the paliers standing as words in a text, in order
paliersIn(t) == matchAll(t, PALIER_RE, 0)
palierValue(m) == parseInt(m.g1.v)

\* the 90 characters after the phrase "d'une puissance de", when the block has it
afterPhrase(bloc) ==
  With(match(bloc, PUISSANCE_DE_RE), LAMBDA m :
    IF m.found THEN Some(slice(bloc, m.index + length(m.m0), m.index + length(m.m0) + 90)) ELSE null)

\* the number that follows the phrase "d'une puissance de", when there is one
phraseValue(bloc) ==
  With(match(bloc, RegExp(Cat(<<PUISSANCE_DE_RE.re, Star(Space), Grp(1, Rep(Digit, 1, 4))>>))), LAMBDA m :
    IF m.found THEN Some(parseInt(m.g1.v)) ELSE null)

\* the greatest palier of a text, null when it has none
greatestPalier(t) ==
  IF paliersIn(t) = <<>> THEN null
  ELSE Some(CHOOSE v \in {palierValue(paliersIn(t)[k]) : k \in 1..Len(paliersIn(t))} :
              \A k \in 1..Len(paliersIn(t)) : palierValue(paliersIn(t)[k]) <= v)

\* C13 (as stated): with fewer than two pairs, type_apres.puissance_kva is
\* the palier N of "d'une puissance de <N>" when the block has the phrase,
\* else the greatest palier of the block; it is null only when the block has
\* no palier at all.
C13_PhraseValueElseBlockMaximum ==
  (pc = "travaux" /\ ret # null /\ Len(pairsOfText(arg)) < 2) =>
    LET bloc == extractFirstPosteBlock(arg).v
        kva == ret.type_apres.puissance_kva
    IN /\ (phraseValue(bloc) # null /\ palierOrNone(phraseValue(bloc))) => kva = phraseValue(bloc)
       /\ afterPhrase(bloc) = null => kva = greatestPalier(bloc)
       /\ kva = null => paliersIn(bloc) = <<>>

\* C13 (amended): with fewer than two pairs, type_apres.puissance_kva is,
\* when the block has the phrase "d'une puissance de", the first palier
\* standing as a word in the 90 characters after the phrase, and null when
\* these hold none, whatever the rest of the block holds; without the
\* phrase it is the greatest palier of the block, null when it has none.
C13_FirstPalierAfterPhraseElseBlockMaximum ==
  (pc = "travaux" /\ ret # null /\ Len(pairsOfText(arg)) < 2) =>
    LET bloc == extractFirstPosteBlock(arg).v
        kva == ret.type_apres.puissance_kva
        w == afterPhrase(bloc)
    IN IF w = null THEN kva = greatestPalier(bloc)
       ELSE IF paliersIn(w.v) = <<>> THEN kva = null
       ELSE kva = Some(palierValue(paliersIn(w.v)[1]))

\* the phrase followed by a number that is no palier, in a block that has a
\* palier elsewhere: the power is null
C13_PhraseWithoutPalier ==
  /\ pc = "travaux"
  /\ ret # null
  /\ Len(pairsOfText(arg)) < 2
  /\ afterPhrase(extractFirstPosteBlock(arg).v) # null
  /\ phraseValue(extractFirstPosteBlock(arg).v) # null
  /\ ret.type_apres.puissance_kva = null
  /\ paliersIn(extractFirstPosteBlock(arg).v) # <<>>

\* the operation a keyword stands for, by its first letter
keywordOf(w) ==
  IF startsWith(toLowerCase(w), <<"d">>) THEN "deplacement"
  ELSE IF startsWith(toLowerCase(w), <<"c">>) THEN "creation"
  ELSE IF startsWith(toLowerCase(w), <<"a">>) THEN "adaptation"
  ELSE "mutation"

\* C16: travaux is null exactly when the text has no operation keyword
\* followed by "du poste DP"; when it is not null, operation_principale is
\* the keyword of the first such occurrence, never null, and
\* operation_secondaire is null or "adaptation", the latter only with
\* operation_principale "deplacement".
C16_NullOnlyWithoutOperation ==
  pc = "travaux" =>
    LET m == match(arg, POSTE_EVT_START_RE)
    IN /\ (ret = null) <=> ~m.found
       /\ ret # null =>
            /\ ret.operation_principale = Some(keywordOf(m.g1.v))
            /\ ret.operation_secondaire \in {null, Some("adaptation")}
            /\ ret.operation_secondaire # null => ret.operation_principale = Some("deplacement")

\* a block that gives the operation and nothing else
C16_OperationAndNothingElse ==
  /\ pc = "travaux"
  /\ ret # null
  /\ ret.operation_principale = Some("mutation")
  /\ ret.type_avant = [code |-> null, puissance_kva |-> null]
  /\ ret.type_apres = [code |-> null, raw |-> null, puissance_kva |-> null]

(***************************************************************************)
(* buildTypePowerPairs alone                                                *)
(***************************************************************************)
typeParts ==
  {Str(<<"P","R","C","S"," ">>),
   concat(Str(<<"P","R","C","S">>), Pad(26)),
   Str(<<"H","6","1"," ">>),
   Str(<<"1","0","0"," ","k","V","A"," ">>),
   concat(Pad(170), Str(<<"1","0","0"," ","k","V","A"," ">>))}

MaxTypeParts == 3

InitTypePairs ==
  /\ arg \in Texts(typeParts, MaxTypeParts)
  /\ ret = null
  /\ lastIndex = freshIndex
  /\ indexAtCall = freshIndex
  /\ pc = "idle"

CallBuildTypePowerPairs ==
  /\ pc = "idle"
  /\ ret' = buildTypePowerPairs(arg)
  /\ pc' = "pairs"
  /\ UNCHANGED <<arg, lastIndex, indexAtCall>>

NextTypePairs == CallBuildTypePowerPairs

SpecTypePairs == InitTypePairs /\ [][NextTypePairs]_vars

\* the pair of every occurrence of a type code, in document order
allTypePairs(bloc) ==
  LET occ == scanTypeOccurrences(bloc)
  IN [k \in 1..Len(occ) |-> typePowerPair(bloc, occ[k])]

\* x is taken for the same token as r: same code, less than 40 characters
\* apart, and no other code between them
collapsesInto(all, x, r) ==
  /\ x.code = r.code
  /\ abs(x.pos - r.pos) < 40
  /\ \A k \in 1..Len(all) :
       (Min2(x.pos, r.pos) <= all[k].pos /\ all[k].pos <= Max2(x.pos, r.pos)) => all[k].code = x.code

\* C15: the result is made of pairs of the occurrences, in document order;
\* two neighbours of the result have different codes or are 40 characters
\* or more apart; every pair left out is collapsed into a pair kept, of the
\* same code, less than 40 characters away, with no other code between, a
\* later pair being kept in place of an earlier one only when the earlier
\* has no power and the later has one, and a pair with a power never
\* being dropped for a pair without; of two occurrences only, the one kept
\* is the earlier unless it alone lacks a power.
C15_CollapseNearDuplicates ==
  pc = "pairs" =>
    LET all == allTypePairs(arg)
        kept == {ret[j] : j \in 1..Len(ret)}
    IN /\ \A j \in 1..Len(ret) : \E k \in 1..Len(all) : all[k] = ret[j]
       /\ \A j \in 1..(Len(ret) - 1) : ret[j].pos < ret[j + 1].pos
       /\ \A j \in 1..(Len(ret) - 1) :
            ret[j].code # ret[j + 1].code \/ ret[j + 1].pos - ret[j].pos >= 40
       /\ \A k \in 1..Len(all) :
            all[k] \notin kept =>
              \E r \in kept :
                /\ collapsesInto(all, all[k], r)
                /\ r.puissance_kva = null => all[k].puissance_kva = null
                /\ r.pos > all[k].pos => (all[k].puissance_kva = null /\ r.puissance_kva # null)
       /\ (Len(all) = 2 /\ collapsesInto(all, all[1], all[2])) =>
            ret = IF all[1].puissance_kva = null /\ all[2].puissance_kva # null
                  THEN <<all[2]>> ELSE <<all[1]>>

\* two occurrences of one code 5 characters apart, the later alone with a
\* power, kept in place of the earlier
C15_LaterKeptForItsPower ==
  /\ pc = "pairs"
  /\ Len(allTypePairs(arg)) = 2
  /\ collapsesInto(allTypePairs(arg), allTypePairs(arg)[1], allTypePairs(arg)[2])
  /\ allTypePairs(arg)[1].puissance_kva = null
  /\ ret = <<allTypePairs(arg)[2]>>
  /\ ret[1].puissance_kva # null

====
